---- MODULE Spec2Model ----
(***************************************************************************)
(* Model of the fetcher's Job Executor (archival/job_executor.py) and of   *)
(* the Resumable Downloader (common/fetcher_services/download.py).         *)
(*                                                                         *)
(* Job Executor: client threads call submit_job; the ThreadPoolExecutor's  *)
(* worker threads run _execute_job and the completion callback             *)
(* _job_completed.  Every region the code runs under a lock is one atomic  *)
(* action; the code between two regions is a separate action, so that the  *)
(* interleavings of the threads between the regions are all explored.      *)
(*                                                                         *)
(* Resumable Downloader: one call of download_files, a sequential loop; an *)
(* action is one step between two points where the outcome of a transfer   *)
(* or of a reconnection is decided by the environment.                     *)
(***************************************************************************)
EXTENDS Integers, Sequences, FiniteSets, TLC

\* ------------------------------------------------------------------ bounds
\* Largest worker pool: JobExecutor(max_workers = 1..MaxPoolSize).
MaxPoolSize == 2
\* Largest number of client threads calling submit_job concurrently.
NumClients == 2
\* Size of the configurations explored: the larger of the number of client
\* threads and the number of pool threads, plus the number of submit_job
\* calls.  One client with one worker makes three calls, every configuration
\* with two clients or two workers makes two.
SizeBudget == 4

\* The (job_id, service_id) pairs the clients submit.  job_id and service_id
\* are free strings, so they may themselves contain the "_" that job keys are
\* joined with.
Submitted == {<<"a", "c">>, <<"a", "b_c">>, <<"a_b", "c">>}

\* Largest max_reconnect_attempts a download configuration sets.
MaxRetries == 1
\* Longest work list handed to download_files.
MaxFiles == 3
\* The history counters of the downloader stop counting here.
CountCap == 3
\* Calls of get_job_status made by the thread that asks for status; the
\* thread that asks for statistics or shuts down makes one call.
ObsCalls == 2
\* Longest list handed to filter_files.
MaxFilterFiles == 3
\* Longest list handed to sort_files, and the largest num_files.
MaxSortFiles == 4
MaxNumFiles == 2
\* Largest max_reconnect_attempts a listing configuration sets.
MaxListRetries == 2
\* While the locks are explored: client threads, pool threads, calls the
\* clients make in all, submit_job calls among them.
LkClients == 2
LkWorkers == 2
LkCalls == 3
LkSubmits == 2
\* submit_job calls one client makes to a pool of two in the longer
\* workload, the two that filled the pool included.
BurstCalls == 4
\* submit_job calls made while those are explored, and the largest pool.
ObsSubmits == 2
ObsPoolSize == 1

Clients == 1..NumClients
Workers == (NumClients + 1)..(NumClients + MaxPoolSize)
Threads == Clients \cup Workers

\* ------------------------------------------------------------------ state
VARIABLES
    max_workers,     \* self.max_workers, the constructor's argument
    num_clients,     \* how many client threads use the executor
    call_limit,      \* how many submit_job calls the clients make in all
    job_queue,       \* self.job_queue: list of JobRequest
    active_jobs,     \* self.active_jobs: job_key -> future (index in futures)
    completed_jobs,  \* self.completed_jobs: list of JobResult
    stats,           \* self.stats
    futures,         \* the futures created by executor.submit, in creation order
    work_queue,      \* the pool's queue of work items not yet taken by a worker
    pc,              \* per thread: where it is in the code
    loc,             \* per thread: local variables of the frame it is executing
    returned,        \* history: how many submit_job calls returned True / False
    calls,           \* number of submit_job calls made so far
    appended,        \* history: requests in the order submit_job appended them
    \* ---- download_files
    config,          \* the configuration dictionary (the keys download_files reads)
    fs,              \* the filesystem handle: "alive" or "none"
    disk,            \* local files: destination -> [exists, size, src]
    state_file,      \* the persisted TransferState, or NoState
    dl,              \* the local variables of download_files
    dpc,             \* where download_files is
    result,          \* what download_files returned
    h,               \* history of the run of download_files
    \* ---- get_job_status, get_executor_stats, shutdown
    obs,             \* the thread calling them: where it is, its locals, its result
    seen,            \* history: what the calls reported
    \* ---- filter_files
    flt,             \* one call: the files and config passed, the list returned
    \* ---- sort_files, list_files, create_connection, BaseModule.execute
    srt,             \* one call of sort_files: files, config, the list returned
    lst,             \* one call of list_files: the walk of the remote tree
    conn,            \* one call of create_connection: config, outcome
    mod,             \* one call of BaseModule.execute: stages run, result
    \* ---- the executor's three locks
    lk               \* per thread: call stack and locks held; who owns each lock

execVars == <<max_workers, num_clients, call_limit, job_queue, active_jobs, completed_jobs, stats, futures,
              work_queue, pc, loc, returned, calls, appended>>

dlVars == <<config, fs, disk, state_file, dl, dpc, result, h>>

obsVars == <<obs, seen>>

flVars == <<flt>>

svcVars == <<srt, lst, conn, mod, lk>>

\* What the executor's operations and what download_files leave alone.
otherThanExec == <<dlVars, obsVars, flVars, svcVars>>
otherThanDl == <<execVars, obsVars, flVars, svcVars>>

vars == <<execVars, dlVars, obsVars, flVars, svcVars>>

\* ------------------------------------------------------------------ helpers
\* JobRequest(job_id, service_id)
JobRequest(job_id, service_id) == [job_id |-> job_id, service_id |-> service_id]

\* job_key = f"{job_request.job_id}_{job_request.service_id}"
JobKey(req) == req.job_id \o "_" \o req.service_id

NoLocals == [job_key |-> "none", future |-> 0,
             queue_size |-> 0, currently_running |-> 0]

\* dict without one key
DictDel(d, k) == [x \in (DOMAIN d) \ {k} |-> d[x]]

\* dict with d[k] = v
DictPut(d, k, v) == [x \in (DOMAIN d) \cup {k} |-> IF x = k THEN v ELSE d[x]]

EmptyDict == [x \in {} |-> 0]

\* list.pop(0) leaves the tail
Tail0(s) == SubSeq(s, 2, Len(s))

\* The threads that exist in the configuration chosen at construction.
Live(t) == IF t \in Clients THEN t <= num_clients
                            ELSE t <= NumClients + max_workers

Max(a, b) == IF a >= b THEN a ELSE b

conf == <<max_workers, num_clients, call_limit>>

\* JobExecutor.__init__, lines 51-68: empty containers, zeroed statistics, a
\* pool whose threads are idle.
InitExecutor ==
    /\ job_queue = <<>>
    /\ active_jobs = EmptyDict
    /\ completed_jobs = <<>>
    /\ stats = [total_submitted |-> 0, total_completed |-> 0, total_failed |-> 0,
                currently_running |-> 0, queue_size |-> 0]
    /\ futures = <<>>
    /\ work_queue = <<>>
    /\ pc = [t \in Threads |-> "idle"]
    /\ loc = [t \in Threads |-> NoLocals]
    /\ returned = [True |-> 0, False |-> 0]
    /\ calls = 0
    /\ appended = <<>>

\* No download is in progress while the executor is explored.
NoDownload ==
    /\ config = "none"
    /\ fs = "none"
    /\ disk = "none"
    /\ state_file = "none"
    /\ dl = "none"
    /\ dpc = "none"
    /\ result = "none"
    /\ h = "none"

\* Nobody asks for status or statistics, nobody shuts the executor down.
NoObserver ==
    /\ obs = "none"
    /\ seen = "none"

\* No call of filter_files.
NoFilter == flt = "none"

\* No call of sort_files, list_files, create_connection or execute, and the
\* locks are not looked at.
NoServices ==
    /\ srt = "none"
    /\ lst = "none"
    /\ conn = "none"
    /\ mod = "none"
    /\ lk = "none"

Init ==
    /\ NoDownload
    /\ NoObserver
    /\ NoFilter
    /\ NoServices
    /\ max_workers \in 1..MaxPoolSize
    /\ num_clients \in 1..NumClients
    /\ call_limit = SizeBudget - Max(num_clients, max_workers)
    /\ InitExecutor

\* ------------------------------------------------------------------ returns
\* The frame of thread t returns and every frame below it unwinds: the code
\* after a nested call (logging, "return True") changes no shared state.  A
\* client is back from submit_job, which returns True at line 138; a pool
\* worker is back in the pool's loop.
Unwind(t) ==
    /\ pc' = [pc EXCEPT ![t] = "idle"]
    /\ loc' = [loc EXCEPT ![t] = NoLocals]
    /\ returned' = IF t \in Clients THEN [returned EXCEPT !.True = @ + 1]
                                   ELSE returned

\* Threads that are idle hold no state and are interchangeable: of the idle
\* threads of a group the lowest-numbered one is the one that acts next.
LowestIdle(t, group) == \A u \in group : u < t => pc[u] # "idle"

\* ------------------------------------------------------------------ submit_job
\* The duplicate check looking at the active table instead of the queue.
AlreadyQueued_ActiveTable(job_id, service_id) ==
    JobKey(JobRequest(job_id, service_id)) \in DOMAIN active_jobs

\* any(job.job_id == job_id and job.service_id == service_id for job in self.job_queue)
AlreadyQueued(job_id, service_id) ==
    \E i \in 1..Len(job_queue) :
        job_queue[i].job_id = job_id /\ job_queue[i].service_id = service_id

\* submit_job, lines 105-121: the region under queue_lock.
SubmitJob(t, job_id, service_id) ==
    /\ pc[t] = "idle"
    /\ Live(t)
    /\ LowestIdle(t, Clients)
    /\ calls < call_limit
    /\ calls' = calls + 1
    /\ IF AlreadyQueued(job_id, service_id)
       THEN /\ returned' = [returned EXCEPT !.False = @ + 1]
            /\ UNCHANGED <<otherThanExec, conf, job_queue, pc, loc, appended>>
       ELSE /\ job_queue' = Append(job_queue, JobRequest(job_id, service_id))
            /\ loc' = [loc EXCEPT ![t] = [NoLocals EXCEPT
                          !.queue_size = Len(job_queue) + 1]]
            /\ pc' = [pc EXCEPT ![t] = "submit_stats"]
            /\ appended' = Append(appended, JobRequest(job_id, service_id))
            /\ UNCHANGED returned
    /\ UNCHANGED <<otherThanExec, conf, active_jobs, completed_jobs, stats, futures, work_queue>>

\* submit_job, lines 124-136: _update_stats under stats_lock, then the call of
\* _process_queue.
SubmitStats(t) ==
    /\ pc[t] = "submit_stats"
    /\ stats' = [stats EXCEPT !.total_submitted = @ + 1,
                              !.queue_size = loc[t].queue_size]
    /\ pc' = [pc EXCEPT ![t] = "pq_check"]
    /\ UNCHANGED <<otherThanExec, conf, job_queue, active_jobs, completed_jobs, futures, work_queue,
                   loc, returned, calls, appended>>

\* ------------------------------------------------------------------ _process_queue
\* The admission test without its capacity half.
NoCapacityOrNoWork_NoCapacityTest == job_queue = <<>>

\* line 159: if len(self.active_jobs) >= self.max_workers or not self.job_queue: return
NoCapacityOrNoWork ==
    Cardinality(DOMAIN active_jobs) >= max_workers \/ job_queue = <<>>

\* pop() instead of pop(0): the newest request is taken.
PopIndex_Last == Len(job_queue)

\* line 163: job_request = self.job_queue.pop(0)
PopIndex == 1

\* _process_queue, lines 156-174: the region under queue_lock and
\* active_jobs_lock.  executor.submit creates the future and puts the work
\* item on the pool's queue.
ProcessQueueCheck(t) ==
    /\ pc[t] = "pq_check"
    /\ IF NoCapacityOrNoWork
       THEN /\ Unwind(t)
            /\ UNCHANGED <<otherThanExec, conf, job_queue, active_jobs, futures, work_queue>>
       ELSE LET job_request == job_queue[PopIndex]
                job_key == JobKey(job_request)
                future == Len(futures) + 1
                rest == [i \in 1..(Len(job_queue) - 1) |->
                            IF i < PopIndex THEN job_queue[i] ELSE job_queue[i + 1]]
            IN  /\ job_queue' = rest
                /\ futures' = Append(futures, [req |-> job_request,
                                               state |-> "pending",
                                               outcome |-> "none",
                                               callback |-> "none"])
                /\ work_queue' = Append(work_queue, future)
                /\ active_jobs' = DictPut(active_jobs, job_key, future)
                /\ loc' = [loc EXCEPT ![t] = [job_key |-> job_key,
                              future |-> future,
                              queue_size |-> Len(rest),
                              currently_running |->
                                  Cardinality(DOMAIN active_jobs \cup {job_key})]]
                /\ pc' = [pc EXCEPT ![t] = "pq_stats"]
                /\ UNCHANGED returned
    /\ UNCHANGED <<otherThanExec, conf, completed_jobs, stats, calls, appended>>

\* _process_queue, lines 177-180: _update_stats under stats_lock.
ProcessQueueStats(t) ==
    /\ pc[t] = "pq_stats"
    /\ stats' = [stats EXCEPT !.queue_size = loc[t].queue_size,
                              !.currently_running = loc[t].currently_running]
    /\ pc' = [pc EXCEPT ![t] = "pq_add_callback"]
    /\ loc' = [loc EXCEPT ![t].queue_size = 0, ![t].currently_running = 0]
    /\ UNCHANGED <<otherThanExec, conf, job_queue, active_jobs, completed_jobs, futures, work_queue,
                   returned, calls, appended>>

\* _process_queue, line 183: future.add_done_callback(lambda f:
\* self._job_completed(job_key, f)).  A future that has already finished runs
\* the callback at once in the calling thread; otherwise the callback is stored
\* and the worker that finishes the future runs it.
AddDoneCallback(t) ==
    /\ pc[t] = "pq_add_callback"
    /\ IF futures[loc[t].future].state = "finished"
       THEN /\ pc' = [pc EXCEPT ![t] = "jc_result"]
            /\ UNCHANGED <<futures, loc, returned>>
       ELSE /\ futures' = [futures EXCEPT ![loc[t].future].callback = loc[t].job_key]
            /\ Unwind(t)
    /\ UNCHANGED <<otherThanExec, conf, job_queue, active_jobs, completed_jobs, stats, work_queue,
                   calls, appended>>

\* ------------------------------------------------------------------ the pool
\* A pool thread with nothing to do takes the oldest work item.
WorkerTake(w) ==
    /\ w \in Workers
    /\ pc[w] = "idle"
    /\ Live(w)
    /\ LowestIdle(w, Workers)
    /\ work_queue # <<>>
    /\ work_queue' = Tail0(work_queue)
    /\ futures' = [futures EXCEPT ![work_queue[1]].state = "running"]
    /\ loc' = [loc EXCEPT ![w] = [NoLocals EXCEPT !.future = work_queue[1]]]
    /\ pc' = [pc EXCEPT ![w] = "execute_job"]
    /\ UNCHANGED <<otherThanExec, conf, job_queue, active_jobs, completed_jobs, stats, returned, calls,
                   appended>>

\* What one run of _execute_job can end with: a JobResult with success True
\* (line 257), a JobResult with success False (lines 279, 304), or an exception
\* raised outside its try block (line 205, StructuredLogger opening the log
\* file named after job_id and service_id).
Outcomes == {"success", "failure", "raised"}

\* _execute_job, lines 194-312, run by a pool thread; the future is then set
\* finished and the thread runs the callback stored on it, if any.
ExecuteJob(w, outcome) ==
    /\ pc[w] = "execute_job"
    /\ LET f == loc[w].future
       IN  /\ futures' = [futures EXCEPT ![f].state = "finished",
                                         ![f].outcome = outcome]
           /\ IF futures[f].callback = "none"
              THEN /\ pc' = [pc EXCEPT ![w] = "idle"]
                   /\ loc' = [loc EXCEPT ![w] = NoLocals]
              ELSE /\ pc' = [pc EXCEPT ![w] = "jc_result"]
                   /\ loc' = [loc EXCEPT ![w].job_key = futures[f].callback]
    /\ UNCHANGED <<otherThanExec, conf, job_queue, active_jobs, completed_jobs, stats, work_queue,
                   returned, calls, appended>>

\* ------------------------------------------------------------------ _job_completed
\* _job_completed, lines 345-360: future.result(), then the region under
\* active_jobs_lock.  A key that is no longer in the table ends the handler
\* (line 358); an exception from future.result() goes to the except block.
JobCompletedRemove(t) ==
    /\ pc[t] = "jc_result"
    /\ IF futures[loc[t].future].outcome = "raised"
       THEN /\ pc' = [pc EXCEPT ![t] = "jc_except"]
            /\ UNCHANGED <<active_jobs, loc, returned>>
       ELSE IF loc[t].job_key \in DOMAIN active_jobs
            THEN /\ active_jobs' = DictDel(active_jobs, loc[t].job_key)
                 /\ loc' = [loc EXCEPT ![t].currently_running =
                               Cardinality(DOMAIN active_jobs \ {loc[t].job_key})]
                 /\ pc' = [pc EXCEPT ![t] = "jc_stats"]
                 /\ UNCHANGED returned
            ELSE /\ Unwind(t)
                 /\ UNCHANGED active_jobs
    /\ UNCHANGED <<otherThanExec, conf, job_queue, completed_jobs, stats, futures, work_queue, calls,
                   appended>>

\* _job_completed, lines 363-372: _update_stats under stats_lock.
JobCompletedStats(t) ==
    /\ pc[t] = "jc_stats"
    /\ stats' = IF futures[loc[t].future].outcome = "success"
                THEN [stats EXCEPT !.total_completed = @ + 1,
                                   !.currently_running = loc[t].currently_running]
                ELSE [stats EXCEPT !.total_failed = @ + 1,
                                   !.currently_running = loc[t].currently_running]
    /\ pc' = [pc EXCEPT ![t] = "jc_append"]
    /\ UNCHANGED <<otherThanExec, conf, job_queue, active_jobs, completed_jobs, futures, work_queue,
                   loc, returned, calls, appended>>

\* _job_completed, lines 375-393: the result is appended to completed_jobs
\* (no lock), then _process_queue is called.
JobCompletedAppend(t) ==
    /\ pc[t] = "jc_append"
    /\ completed_jobs' = Append(completed_jobs,
           [job_id |-> futures[loc[t].future].req.job_id,
            service_id |-> futures[loc[t].future].req.service_id,
            success |-> (futures[loc[t].future].outcome = "success")])
    /\ pc' = [pc EXCEPT ![t] = "pq_check"]
    /\ UNCHANGED <<otherThanExec, conf, job_queue, active_jobs, stats, futures, work_queue, loc, returned,
                   calls, appended>>

\* _job_completed, lines 395-411: the except block.  Under active_jobs_lock the
\* key is removed and, under stats_lock, the job is counted as failed; then
\* _process_queue is called.
JobCompletedExcept(t) ==
    /\ pc[t] = "jc_except"
    /\ IF loc[t].job_key \in DOMAIN active_jobs
       THEN /\ active_jobs' = DictDel(active_jobs, loc[t].job_key)
            /\ stats' = [stats EXCEPT !.total_failed = @ + 1,
                            !.currently_running =
                                Cardinality(DOMAIN active_jobs \ {loc[t].job_key})]
       ELSE UNCHANGED <<active_jobs, stats>>
    /\ pc' = [pc EXCEPT ![t] = "pq_check"]
    /\ UNCHANGED <<otherThanExec, conf, job_queue, completed_jobs, futures, work_queue, loc, returned, calls,
                   appended>>

\* ------------------------------------------------------------------ specification
Next ==
    \/ \E t \in Clients, p \in Submitted : SubmitJob(t, p[1], p[2])
    \/ \E t \in Threads : SubmitStats(t)
    \/ \E t \in Threads : ProcessQueueCheck(t)
    \/ \E t \in Threads : ProcessQueueStats(t)
    \/ \E t \in Threads : AddDoneCallback(t)
    \/ \E w \in Workers : WorkerTake(w)
    \/ \E w \in Workers, outcome \in Outcomes : ExecuteJob(w, outcome)
    \/ \E t \in Threads : JobCompletedRemove(t)
    \/ \E t \in Threads : JobCompletedStats(t)
    \/ \E t \in Threads : JobCompletedAppend(t)
    \/ \E t \in Threads : JobCompletedExcept(t)

Spec == Init /\ [][Next]_vars

\* ------------------------------------------------------------------ N distinct jobs
\* The workload of N = max_workers + 1 jobs with pairwise distinct
\* (job_id, service_id) pairs, submitted by one client.
InitN ==
    /\ NoDownload
    /\ NoObserver
    /\ NoFilter
    /\ NoServices
    /\ max_workers \in 1..MaxPoolSize
    /\ num_clients = 1
    /\ call_limit = max_workers + 1
    /\ InitExecutor

SubmitNewJob(t, job_id, service_id) ==
    /\ \A i \in 1..Len(appended) : appended[i] # JobRequest(job_id, service_id)
    /\ SubmitJob(t, job_id, service_id)

NextN ==
    \/ \E t \in Clients, p \in Submitted : SubmitNewJob(t, p[1], p[2])
    \/ \E t \in Threads : SubmitStats(t)
    \/ \E t \in Threads : ProcessQueueCheck(t)
    \/ \E t \in Threads : ProcessQueueStats(t)
    \/ \E t \in Threads : AddDoneCallback(t)
    \/ \E w \in Workers : WorkerTake(w)
    \/ \E w \in Workers, outcome \in Outcomes : ExecuteJob(w, outcome)
    \/ \E t \in Threads : JobCompletedRemove(t)
    \/ \E t \in Threads : JobCompletedStats(t)
    \/ \E t \in Threads : JobCompletedAppend(t)
    \/ \E t \in Threads : JobCompletedExcept(t)

SpecN == InitN /\ [][NextN]_vars

\* ------------------------------------------------------------------ a longer workload
\* One client has had its first two requests, ("a","c") and ("a","b_c"),
\* accepted by an executor with two workers, both jobs run in the pool with
\* their callbacks attached, and the client makes BurstCalls calls in all:
\* the next requests find the pool full and wait in the queue.
PoolFull ==
    /\ job_queue = <<>>
    /\ active_jobs = DictPut(DictPut(EmptyDict, "a_c", 1), "a_b_c", 2)
    /\ completed_jobs = <<>>
    /\ stats = [total_submitted |-> 2, total_completed |-> 0, total_failed |-> 0,
                currently_running |-> 2, queue_size |-> 0]
    /\ futures = <<[req |-> JobRequest("a", "c"), state |-> "running",
                    outcome |-> "none", callback |-> "a_c"],
                   [req |-> JobRequest("a", "b_c"), state |-> "running",
                    outcome |-> "none", callback |-> "a_b_c"]>>
    /\ work_queue = <<>>
    /\ pc = [t \in Threads |-> IF t \in Workers THEN "execute_job" ELSE "idle"]
    /\ loc = [t \in Threads |-> IF t \in Workers
                                THEN [NoLocals EXCEPT !.future = t - NumClients]
                                ELSE NoLocals]
    /\ returned = [True |-> 2, False |-> 0]
    /\ calls = 2
    /\ appended = <<JobRequest("a", "c"), JobRequest("a", "b_c")>>

InitB ==
    /\ NoDownload
    /\ NoObserver
    /\ NoFilter
    /\ NoServices
    /\ max_workers = MaxPoolSize
    /\ num_clients = 1
    /\ call_limit = BurstCalls
    /\ PoolFull

\* The pairs the client goes on to submit, and what the jobs of this
\* workload end with: a successful JobResult or an exception.
BurstPairs == {<<"a", "c">>, <<"a", "b_c">>}

BurstOutcomes == {"success", "raised"}

NextB ==
    \/ \E t \in Clients, p \in BurstPairs : SubmitJob(t, p[1], p[2])
    \/ \E t \in Threads : SubmitStats(t)
    \/ \E t \in Threads : ProcessQueueCheck(t)
    \/ \E t \in Threads : ProcessQueueStats(t)
    \/ \E t \in Threads : AddDoneCallback(t)
    \/ \E w \in Workers : WorkerTake(w)
    \/ \E w \in Workers, outcome \in BurstOutcomes : ExecuteJob(w, outcome)
    \/ \E t \in Threads : JobCompletedRemove(t)
    \/ \E t \in Threads : JobCompletedStats(t)
    \/ \E t \in Threads : JobCompletedAppend(t)
    \/ \E t \in Threads : JobCompletedExcept(t)

SpecB == InitB /\ [][NextB]_vars

\* ------------------------------------------------------------------ status and statistics
\* One more thread calls get_job_status (for one pair), or get_executor_stats,
\* or shutdown while the clients submit and the pool works.
ObserverKinds == {"status", "stats", "shutdown"}

NoStatus == [status |-> "none", queue_position |-> 0]

NoStatsResult ==
    [total_submitted |-> 0, total_completed |-> 0, total_failed |-> 0,
     currently_running |-> 0, queue_size |-> 0, max_workers |-> 0,
     completed_jobs |-> 0]

NoShutdown == [returned |-> FALSE, wait |-> FALSE, outstanding |-> 0,
               final |-> FALSE, after_submits |-> FALSE]

\* The stats dictionary as the constructor leaves it.
ZeroStats ==
    [total_submitted |-> 0, total_completed |-> 0, total_failed |-> 0,
     currently_running |-> 0, queue_size |-> 0]

InitObserver ==
    /\ \E kind \in ObserverKinds :
       obs = [kind |-> kind, pc |-> "idle", job_id |-> "none", service_id |-> "none",
              stats_snapshot |-> ZeroStats, result |-> NoStatus,
              stats_result |-> NoStatsResult, final_stats |-> NoStatsResult,
              wait |-> FALSE, calls |-> 0, returned_true |-> FALSE]
    /\ seen = [terminal |-> [p \in Submitted |-> "none"],
               latest |-> [p \in Submitted |-> "none"],
               emitted |-> 0,
               shutdown |-> NoShutdown]

InitQ ==
    /\ NoDownload
    /\ NoFilter
    /\ NoServices
    /\ max_workers \in 1..ObsPoolSize
    /\ num_clients = 1
    /\ call_limit = ObsSubmits
    /\ InitExecutor
    /\ InitObserver

\* A call of get_job_status returns: the history keeps the status reported
\* last for the pair and the first terminal status reported for it.
Report(p, status) ==
    [seen EXCEPT !.latest[p] = status,
                 !.terminal[p] = IF @ = "none" /\ status \in {"COMPLETED", "FAILED"}
                                 THEN status ELSE @]

\* A submit_job call for the pair has returned True: the one client's calls
\* return in the order in which they were accepted.
SubmitReturnedTrue(job_id, service_id) ==
    \E i \in 1..Len(appended) :
        /\ appended[i] = JobRequest(job_id, service_id)
        /\ i <= returned.True

\* get_job_status, lines 415-425: the job key, then the look into the active
\* table under active_jobs_lock.  obs.returned_true keeps, for the history,
\* whether the pair's submit_job had returned True when the call began.
GetJobStatusActive(job_id, service_id) ==
    /\ obs.kind = "status"
    /\ obs.pc = "idle"
    /\ obs.calls < ObsCalls
    /\ obs.calls > 0 => (job_id = obs.job_id /\ service_id = obs.service_id)
    /\ LET job_key == JobKey(JobRequest(job_id, service_id))
       IN  IF job_key \in DOMAIN active_jobs
           THEN /\ obs' = [obs EXCEPT !.calls = @ + 1,
                                      !.job_id = job_id,
                                      !.service_id = service_id,
                                      !.returned_true =
                                          SubmitReturnedTrue(job_id, service_id),
                                      !.result = [status |-> "RUNNING",
                                                  queue_position |-> 0]]
                /\ seen' = Report(<<job_id, service_id>>, "RUNNING")
           ELSE /\ obs' = [obs EXCEPT !.calls = @ + 1,
                                      !.job_id = job_id,
                                      !.service_id = service_id,
                                      !.returned_true =
                                          SubmitReturnedTrue(job_id, service_id),
                                      !.result = NoStatus,
                                      !.pc = "gs_queue"]
                /\ UNCHANGED seen
    /\ UNCHANGED <<execVars, dlVars, flVars, svcVars>>

\* The index of enumerate reported as it is.
QueuePosition_ZeroBased(i) == i

\* line 434: "queue_position": i + 1
QueuePosition(i) == i + 1

\* get_job_status, lines 427-435: the walk through the queue under queue_lock;
\* enumerate counts from 0, the sequence of the model from 1.
GetJobStatusQueue ==
    /\ obs.pc = "gs_queue"
    /\ LET hits == {k \in 1..Len(job_queue) :
                       /\ job_queue[k].job_id = obs.job_id
                       /\ job_queue[k].service_id = obs.service_id}
       IN  IF hits # {}
           THEN LET k == CHOOSE x \in hits : \A y \in hits : x <= y
                IN  /\ obs' = [obs EXCEPT !.pc = "idle",
                                          !.result = [status |-> "QUEUED",
                                                      queue_position |->
                                                          QueuePosition(k - 1)]]
                    /\ seen' = Report(<<obs.job_id, obs.service_id>>, "QUEUED")
           ELSE /\ obs' = [obs EXCEPT !.pc = "gs_completed"]
                /\ UNCHANGED seen
    /\ UNCHANGED <<execVars, dlVars, flVars, svcVars>>

\* get_job_status, lines 437-451: the walk through completed_jobs without a
\* lock; the first JobResult of the pair decides, None is returned without one.
GetJobStatusCompleted ==
    /\ obs.pc = "gs_completed"
    /\ LET hits == {k \in 1..Len(completed_jobs) :
                       /\ completed_jobs[k].job_id = obs.job_id
                       /\ completed_jobs[k].service_id = obs.service_id}
           status == IF hits = {} THEN "None"
                     ELSE LET k == CHOOSE x \in hits : \A y \in hits : x <= y
                          IN  IF completed_jobs[k].success THEN "COMPLETED"
                                                           ELSE "FAILED"
       IN  /\ obs' = [obs EXCEPT !.pc = "idle",
                                 !.result = [status |-> status,
                                             queue_position |-> 0]]
           /\ seen' = Report(<<obs.job_id, obs.service_id>>, status)
    /\ UNCHANGED <<execVars, dlVars, flVars, svcVars>>

\* The sizes stored in the stats dictionary are passed on.
LiveCounts_Stored(snapshot) ==
    [total_submitted |-> snapshot.total_submitted,
     total_completed |-> snapshot.total_completed,
     total_failed |-> snapshot.total_failed,
     currently_running |-> snapshot.currently_running,
     queue_size |-> snapshot.queue_size,
     max_workers |-> max_workers,
     completed_jobs |-> Len(completed_jobs)]

\* get_executor_stats, lines 458-472: the sizes read under queue_lock and
\* active_jobs_lock, written over the snapshot's.
LiveCounts(snapshot) ==
    [total_submitted |-> snapshot.total_submitted,
     total_completed |-> snapshot.total_completed,
     total_failed |-> snapshot.total_failed,
     currently_running |-> Cardinality(DOMAIN active_jobs),
     queue_size |-> Len(job_queue),
     max_workers |-> max_workers,
     completed_jobs |-> Len(completed_jobs)]

\* get_executor_stats, line 456: _get_stats_snapshot copies the stats
\* dictionary under stats_lock.
GetExecutorStatsSnapshot ==
    /\ obs.kind = "stats"
    /\ obs.pc = "idle"
    /\ obs.calls = 0
    /\ obs' = [obs EXCEPT !.calls = @ + 1,
                          !.stats_snapshot = stats,
                          !.pc = "stats_live"]
    /\ UNCHANGED <<execVars, dlVars, flVars, svcVars, seen>>

\* get_executor_stats, lines 458-474.
GetExecutorStatsLive ==
    /\ obs.pc = "stats_live"
    /\ obs' = [obs EXCEPT !.stats_result = LiveCounts(obs.stats_snapshot),
                          !.stats_snapshot = ZeroStats,
                          !.pc = "idle"]
    /\ UNCHANGED <<execVars, dlVars, flVars, svcVars, seen>>

\* Work handed to the pool that has not finished: work items waiting for a
\* pool thread and pool threads that are busy.
Outstanding ==
    Len(work_queue) + Cardinality({w \in Workers : pc[w] # "idle"})

\* shutdown, line 478: get_executor_stats, its first half.
ShutdownSnapshot(wait) ==
    /\ obs.kind = "shutdown"
    /\ obs.pc = "idle"
    /\ obs.calls = 0
    /\ obs' = [obs EXCEPT !.calls = @ + 1,
                          !.stats_snapshot = stats,
                          !.wait = wait,
                          !.pc = "sd_stats_live"]
    /\ seen' = [seen EXCEPT !.shutdown.after_submits =
                                (calls = call_limit
                                 /\ \A t \in Clients : pc[t] = "idle")]
    /\ UNCHANGED <<execVars, dlVars, flVars, svcVars>>

\* shutdown, lines 478-484: the second half of get_executor_stats, then the
\* snapshot is logged.
ShutdownStatsLive ==
    /\ obs.pc = "sd_stats_live"
    /\ obs' = [obs EXCEPT !.final_stats = LiveCounts(obs.stats_snapshot),
                          !.stats_snapshot = ZeroStats,
                          !.pc = "sd_pool"]
    /\ seen' = [seen EXCEPT !.emitted = @ + 1]
    /\ UNCHANGED <<execVars, dlVars, flVars, svcVars>>

\* shutdown, lines 486-500: ThreadPoolExecutor.shutdown(wait=True, *,
\* cancel_futures=False) takes no timeout, so the call at line 488 raises
\* TypeError before the pool is touched; the except block logs the snapshot
\* and shutdown returns.
ShutdownPool ==
    /\ obs.pc = "sd_pool"
    /\ obs' = [obs EXCEPT !.pc = "idle", !.final_stats = NoStatsResult]
    /\ seen' = [seen EXCEPT !.emitted = @ + 1,
                            !.shutdown = [@ EXCEPT
                                !.returned = TRUE,
                                !.wait = obs.wait,
                                !.outstanding = Outstanding,
                                !.final = (obs.final_stats = LiveCounts(stats))]]
    /\ UNCHANGED <<execVars, dlVars, flVars, svcVars>>

NextQ ==
    \/ \E t \in Clients, p \in Submitted : SubmitJob(t, p[1], p[2])
    \/ \E t \in Threads : SubmitStats(t)
    \/ \E t \in Threads : ProcessQueueCheck(t)
    \/ \E t \in Threads : ProcessQueueStats(t)
    \/ \E t \in Threads : AddDoneCallback(t)
    \/ \E w \in Workers : WorkerTake(w)
    \/ \E w \in Workers, outcome \in Outcomes : ExecuteJob(w, outcome)
    \/ \E t \in Threads : JobCompletedRemove(t)
    \/ \E t \in Threads : JobCompletedStats(t)
    \/ \E t \in Threads : JobCompletedAppend(t)
    \/ \E t \in Threads : JobCompletedExcept(t)
    \/ \E p \in Submitted : GetJobStatusActive(p[1], p[2])
    \/ GetJobStatusQueue
    \/ GetJobStatusCompleted
    \/ GetExecutorStatsSnapshot
    \/ GetExecutorStatsLive
    \/ \E wait \in BOOLEAN : ShutdownSnapshot(wait)
    \/ ShutdownStatsLive
    \/ ShutdownPool

SpecQ == InitQ /\ [][NextQ]_vars

\* ------------------------------------------------------------------ download_files
\* The remote files a listing can return: two files of the same name in
\* different directories, and a third one.
F1 == [path |-> "/in/b.csv", name |-> "b.csv", size |-> 1]
F2 == [path |-> "/in/sub/b.csv", name |-> "b.csv", size |-> 2]
F3 == [path |-> "/in/a.csv", name |-> "a.csv", size |-> 1]
RemoteFiles == {F1, F2, F3}

\* Python's order of the names ("a.csv" < "b.csv").
NameRank(name) == IF name = "a.csv" THEN 1 ELSE 2

\* relative_path[1:] for a path that starts with "/" (lines 166-167).
StripFrontSlash(path) ==
    CASE path = "/in/b.csv" -> "in/b.csv"
      [] path = "/in/sub/b.csv" -> "in/sub/b.csv"
      [] path = "/in/a.csv" -> "in/a.csv"

Range(s) == {s[k] : k \in 1..Len(s)}

\* The work lists: sequences of distinct remote files.
WorkLists ==
    {s \in UNION {[1..n -> RemoteFiles] : n \in 0..MaxFiles} :
        \A j, k \in 1..Len(s) : j # k => s[j] # s[k]}

\* A file left in the download directory by something else, and no file.
OldFile == [exists |-> TRUE, size |-> 1, src |-> "old"]
Absent == [exists |-> FALSE, size |-> 0, src |-> "none"]

\* No state file.
NoState == [exists |-> FALSE, processed_files |-> <<>>, remaining_files |-> <<>>]

\* lines 154-172: the local destination.  With appendFullPath the remote path
\* without its leading slash is joined to the download directory (the
\* skipFrontSlashPath / addFrontSlashPath handling ends in the same string),
\* otherwise the bare file name is.
LocalFilePath(file_info) ==
    IF config.appendFullPath THEN StripFrontSlash(file_info.path)
                             ELSE file_info.name

Destinations ==
    {StripFrontSlash(f.path) : f \in RemoteFiles} \cup {f.name : f \in RemoteFiles}

\* The resume filter left out: every file of the list is kept.
NotProcessed_KeepAll(files, processed_files) == files

\* [f for f in files if f['path'] not in processed_files]
RECURSIVE NotProcessed(_, _)
NotProcessed(files, processed_files) ==
    IF files = <<>> THEN <<>>
    ELSE IF Head(files).path \in Range(processed_files)
         THEN NotProcessed(Tail(files), processed_files)
         ELSE <<Head(files)>> \o NotProcessed(Tail(files), processed_files)

\* files.sort(key=lambda x: x['name']): a stable sort, by insertion.
RECURSIVE InsertByName(_, _)
InsertByName(file_info, sorted) ==
    IF sorted = <<>> THEN <<file_info>>
    ELSE IF NameRank(Head(sorted).name) <= NameRank(file_info.name)
         THEN <<Head(sorted)>> \o InsertByName(file_info, Tail(sorted))
         ELSE <<file_info>> \o sorted

RECURSIVE SortByName(_)
SortByName(files) ==
    IF files = <<>> THEN <<>>
    ELSE InsertByName(files[Len(files)], SortByName(SubSeq(files, 1, Len(files) - 1)))

\* save_state, utils.py lines 231-254 (the timestamp is left out).
SavedState(processed_files, remaining_files) ==
    [exists |-> TRUE,
     processed_files |-> processed_files,
     remaining_files |-> [k \in 1..Len(remaining_files) |-> remaining_files[k].path]]

\* Saturating increment of a history counter.
Bump(n) == IF n < CountCap THEN n + 1 ELSE n

NoHistory == [state0 |-> NoState, attempted |-> {}, attempts |-> 0,
              consumed |-> 0, only_wrong |-> TRUE, wrong_failed |-> {},
              added |-> <<>>, first_save |-> NoState, input |-> <<>>,
              saved |-> FALSE, run |-> 1, persisted |-> <<>>, verified |-> {}]

\* The call download_files(fs, files, config) and what it finds: a handle that
\* is alive or None, a download directory with at most one file left in it, a
\* state file of an earlier run or none.
InitDownload ==
    /\ config \in [overwrite_existing : BOOLEAN, appendFullPath : BOOLEAN,
                   resume_transfer : BOOLEAN,
                   max_reconnect_attempts : 0..MaxRetries]
    /\ fs \in {"alive", "none"}
    /\ \E old \in SUBSET Destinations :
          /\ Cardinality(old) <= 1
          /\ \A dest \in old : \E f \in RemoteFiles : LocalFilePath(f) = dest
          /\ disk = [dest \in Destinations |->
                        IF dest \in old THEN OldFile ELSE Absent]
    /\ state_file \in {NoState} \cup
          {SavedState(done, <<>>) :
              done \in {<<>>, <<F1.path>>, <<F1.path, F2.path>>}}
    /\ \E files \in WorkLists :
          dl = [files |-> files, processed_files |-> <<>>, i |-> 0, retries |-> 0,
                download_success |-> FALSE, got |-> FALSE,
                success_count |-> 0, skipped_count |-> 0, failed_count |-> 0,
                skipped_files |-> <<>>, failed_files |-> <<>>]
    /\ dpc = "start"
    /\ result = <<>>
    /\ h = [NoHistory EXCEPT !.state0 = state_file, !.input = dl.files]

\* The executor is not part of a run of download_files.
InitDl ==
    /\ InitDownload
    /\ NoObserver
    /\ NoFilter
    /\ NoServices
    /\ max_workers = 1
    /\ num_clients = 1
    /\ call_limit = 0
    /\ InitExecutor

\* line 127: state and state.get('processed_files') and config.get('resume_transfer', True)
Resuming ==
    /\ state_file.exists
    /\ state_file.processed_files # <<>>
    /\ config.resume_transfer

\* download_files, lines 104-145: nothing to do for an empty list; otherwise
\* the state is loaded, the files already processed are dropped, the rest is
\* sorted by name and the initial state is saved.
DownloadStart ==
    /\ dpc = "start"
    /\ IF dl.files = <<>>
       THEN /\ result' = <<0, 0>>
            /\ dpc' = "returned"
            /\ UNCHANGED <<dl, state_file, h>>
       ELSE LET processed_files == IF Resuming THEN state_file.processed_files
                                               ELSE <<>>
                files == SortByName(IF Resuming
                                    THEN NotProcessed(dl.files, processed_files)
                                    ELSE dl.files)
            IN  /\ dl' = [dl EXCEPT !.files = files,
                                    !.processed_files = processed_files,
                                    !.success_count = Len(processed_files)]
                /\ state_file' = SavedState(processed_files, files)
                /\ h' = [h EXCEPT !.first_save = SavedState(processed_files, files),
                                  !.saved = TRUE]
                /\ dpc' = "next_file"
                /\ UNCHANGED result
    /\ UNCHANGED <<otherThanDl, config, fs, disk>>

\* download_files, lines 148-188: the head of the outer loop.  A file that
\* exists locally is skipped unless overwrite_existing is set; otherwise the
\* retry loop starts.
DownloadNextFile ==
    /\ dpc = "next_file"
    /\ dl.i < Len(dl.files)
    /\ LET file_info == dl.files[dl.i + 1]
       IN  IF disk[LocalFilePath(file_info)].exists /\ ~ config.overwrite_existing
           THEN /\ dl' = [dl EXCEPT !.skipped_count = @ + 1,
                                    !.skipped_files = Append(@, file_info.name),
                                    !.i = @ + 1]
                /\ h' = [h EXCEPT !.attempts = 0, !.consumed = 0,
                                  !.only_wrong = TRUE, !.saved = FALSE]
                /\ UNCHANGED dpc
           ELSE /\ dl' = [dl EXCEPT !.download_success = FALSE, !.retries = 0]
                /\ dpc' = "retry_loop"
                /\ h' = [h EXCEPT !.saved = FALSE]
    /\ UNCHANGED <<otherThanDl, config, fs, disk, state_file, result>>

\* line 190: while not download_success and retries <= max_retries
RetryLoopCondition ==
    ~ dl.download_success /\ dl.retries <= config.max_reconnect_attempts

\* line 190: the retry loop ends because its condition is false.
DownloadRetryLoopExit ==
    /\ dpc = "retry_loop"
    /\ ~ RetryLoopCondition
    /\ dpc' = "next_file"
    /\ h' = [h EXCEPT !.saved = FALSE]
    /\ UNCHANGED <<otherThanDl, config, fs, disk, state_file, dl, result>>

\* lines 191-199: before a retry a dead handle is replaced by
\* create_connection(config); a failed reconnection consumes a retry and goes
\* back to the loop condition.
DownloadReconnect(connected) ==
    /\ dpc = "retry_loop"
    /\ RetryLoopCondition
    /\ dl.retries > 0
    /\ fs = "none"
    /\ IF connected
       THEN /\ fs' = "alive"
            /\ dpc' = "transfer"
            /\ h' = [h EXCEPT !.saved = FALSE]
            /\ UNCHANGED dl
       ELSE /\ dl' = [dl EXCEPT !.retries = @ + 1]
            /\ h' = [h EXCEPT !.consumed = Bump(@), !.saved = FALSE]
            /\ UNCHANGED <<fs, dpc>>
    /\ UNCHANGED <<otherThanDl, config, disk, state_file, result>>

\* What one call of fs.get can do: write the whole file, write a file of the
\* wrong size, raise without touching the destination, or raise after writing
\* a part.
TransferOutcomes == {"full", "wrong", "error", "error_partial"}

\* download_file, lines 23-86, called at line 203.  It returns False without a
\* handle and when fs.get raises, True when the destination exists afterwards.
DownloadFile(outcome) ==
    /\ \/ dpc = "transfer"
       \/ /\ dpc = "retry_loop"
          /\ RetryLoopCondition
          /\ ~ (dl.retries > 0 /\ fs = "none")
    /\ fs = "none" => outcome = "error"
    /\ LET file_info == dl.files[dl.i + 1]
           dest == LocalFilePath(file_info)
       IN  /\ disk' = CASE outcome = "full" ->
                             [disk EXCEPT ![dest] = [exists |-> TRUE,
                                                     size |-> file_info.size,
                                                     src |-> file_info.path]]
                        [] outcome \in {"wrong", "error_partial"} ->
                             [disk EXCEPT ![dest] = [exists |-> TRUE,
                                                     size |-> file_info.size - 1,
                                                     src |-> file_info.path]]
                        [] outcome = "error" -> disk
           /\ dl' = [dl EXCEPT !.got = (outcome \in {"full", "wrong"})]
           /\ h' = [h EXCEPT !.attempted = @ \cup {file_info.path},
                             !.attempts = Bump(@),
                             !.only_wrong = @ /\ outcome = "wrong",
                             !.saved = FALSE]
    /\ dpc' = "verify"
    /\ UNCHANGED <<otherThanDl, config, fs, state_file, result>>

\* The retry ceiling applied one attempt too early.
ConsumeRetry_OffByOne(locals) ==
    IF locals.retries + 1 >= config.max_reconnect_attempts
    THEN [locals EXCEPT !.retries = @ + 1,
                        !.failed_count = @ + 1,
                        !.failed_files = Append(@, locals.files[locals.i + 1].name),
                        !.i = @ + 1]
    ELSE [locals EXCEPT !.retries = @ + 1]

\* One more retry is consumed (lines 217-222, 260-265, 268-273); the file is
\* failed and the loop moves on when that was the last one.
ConsumeRetry(locals) ==
    IF locals.retries + 1 > config.max_reconnect_attempts
    THEN [locals EXCEPT !.retries = @ + 1,
                        !.failed_count = @ + 1,
                        !.failed_files = Append(@, locals.files[locals.i + 1].name),
                        !.i = @ + 1]
    ELSE [locals EXCEPT !.retries = @ + 1]

\* lines 205-209: local_size == remote_size
SizeVerified(file_info) ==
    disk[LocalFilePath(file_info)].size = file_info.size

\* download_files, lines 203-273: what follows the call of download_file.  A
\* local file of the remote size counts as a success and the state is saved;
\* a file of another size is removed and a retry is consumed; so it is when
\* download_file returned False.
DownloadVerify ==
    /\ dpc = "verify"
    /\ LET file_info == dl.files[dl.i + 1]
           dest == LocalFilePath(file_info)
       IN  IF dl.got /\ SizeVerified(file_info)
           THEN /\ dl' = [dl EXCEPT
                             !.success_count = @ + 1,
                             !.processed_files = Append(@, file_info.path),
                             !.download_success = TRUE,
                             !.got = FALSE,
                             !.i = @ + 1]
                /\ state_file' =
                       SavedState(Append(dl.processed_files, file_info.path),
                                  SubSeq(dl.files, dl.i + 2, Len(dl.files)))
                /\ h' = [h EXCEPT !.added = Append(@, file_info.path),
                                  !.attempts = 0, !.consumed = 0,
                                  !.only_wrong = TRUE, !.saved = TRUE]
                /\ dpc' = "next_file"
                /\ UNCHANGED disk
           ELSE /\ disk' = IF dl.got THEN [disk EXCEPT ![dest] = Absent] ELSE disk
                /\ dl' = [ConsumeRetry(dl) EXCEPT !.got = FALSE]
                /\ h' = IF ConsumeRetry(dl).i # dl.i
                        THEN [h EXCEPT !.wrong_failed =
                                           IF h.only_wrong
                                           THEN @ \cup {file_info.path} ELSE @,
                                       !.attempts = 0, !.consumed = 0,
                                       !.only_wrong = TRUE, !.saved = FALSE]
                        ELSE [h EXCEPT !.consumed = Bump(@), !.saved = FALSE]
                /\ dpc' = "retry_loop"
                /\ UNCHANGED state_file
    /\ UNCHANGED <<otherThanDl, config, fs, result>>

\* Skipped files are not looked at.
NothingFailedOrSkipped_FailedOnly == dl.failed_count = 0

\* line 280: failed_count == 0 and skipped_count == 0
NothingFailedOrSkipped == dl.failed_count = 0 /\ dl.skipped_count = 0

\* download_files, lines 275-286: after the loop the state is cleared when
\* nothing failed and nothing was skipped, and saved otherwise.
DownloadFinish ==
    /\ dpc = "next_file"
    /\ dl.i >= Len(dl.files)
    /\ state_file' = IF NothingFailedOrSkipped
                     THEN NoState
                     ELSE SavedState(dl.processed_files, <<>>)
    /\ result' = <<dl.success_count,
                   Len(dl.files) + Len(dl.processed_files) - dl.success_count>>
    /\ dpc' = "returned"
    /\ h' = [h EXCEPT !.saved = ~ NothingFailedOrSkipped]
    /\ UNCHANGED <<otherThanDl, config, fs, disk, dl>>

NextDl ==
    \/ DownloadStart
    \/ DownloadNextFile
    \/ DownloadRetryLoopExit
    \/ \E connected \in BOOLEAN : DownloadReconnect(connected)
    \/ \E outcome \in TransferOutcomes : DownloadFile(outcome)
    \/ DownloadVerify
    \/ DownloadFinish

SpecDl == InitDl /\ [][NextDl]_vars

\* ------------------------------------------------------------------ interruption and resume
\* The process running download_files is killed and download_files is called
\* again with the same list and the same configuration, resume_transfer set.
\* The local variables are lost; the download directory and the state file
\* stay.  A process killed inside fs.get may leave a part of the file
\* (partial); a process killed inside save_state, which opens the state file
\* for writing and dumps into it (utils.py lines 248-249), leaves a file that
\* load_state cannot read and answers with None (torn).  The new call gets a
\* handle that is alive or None.  h keeps what was persisted and what had been
\* verified when the process was killed.
TransferIsNext ==
    /\ fs = "alive"
    /\ \/ dpc = "transfer"
       \/ dpc = "retry_loop" /\ RetryLoopCondition

Interrupt(torn, partial, handle) ==
    /\ h.run = 1
    /\ dpc \in {"next_file", "retry_loop", "transfer", "verify"}
    /\ torn => h.saved
    /\ partial => TransferIsNext
    /\ LET kept == IF torn THEN NoState ELSE state_file
           file_info == dl.files[dl.i + 1]
       IN  /\ state_file' = kept
           /\ disk' = IF partial
                      THEN [disk EXCEPT ![LocalFilePath(file_info)] =
                               [exists |-> TRUE, size |-> file_info.size - 1,
                                src |-> file_info.path]]
                      ELSE disk
           /\ h' = [NoHistory EXCEPT
                       !.state0 = kept,
                       !.input = h.input,
                       !.run = 2,
                       !.persisted = kept.processed_files,
                       !.verified = Range(h.added)
                                        \cup Range(h.state0.processed_files)]
    /\ fs' = handle
    /\ dl' = [files |-> h.input, processed_files |-> <<>>, i |-> 0, retries |-> 0,
              download_success |-> FALSE, got |-> FALSE,
              success_count |-> 0, skipped_count |-> 0, failed_count |-> 0,
              skipped_files |-> <<>>, failed_files |-> <<>>]
    /\ dpc' = "start"
    /\ UNCHANGED <<otherThanDl, config, result>>

InitR ==
    /\ InitDl
    /\ config.resume_transfer

NextR ==
    \/ NextDl
    \/ \E torn, partial \in BOOLEAN, handle \in {"alive", "none"} :
          Interrupt(torn, partial, handle)

SpecR == InitR /\ [][NextR]_vars

\* ------------------------------------------------------------------ filter_files
\* The files of a listing.  Days are counted from today (0); mday is the day
\* of mtime, xday the day of the date that stands in the file name (only where
\* has_date is set), ext is what os.path.splitext(name)[1] gives.
X1 == [name |-> "a.csv", path |-> "/in/a.csv", ext |-> ".csv", size |-> 1,
       mday |-> 0, has_date |-> TRUE, xday |-> 0]
X2 == [name |-> "b.CSV", path |-> "/in/b.CSV", ext |-> ".CSV", size |-> 2,
       mday |-> -2, has_date |-> TRUE, xday |-> 2]
X3 == [name |-> "a.txt", path |-> "/in/a.txt", ext |-> ".txt", size |-> 3,
       mday |-> -1, has_date |-> TRUE, xday |-> -1]
X4 == [name |-> "c.csv", path |-> "/in/c.csv", ext |-> ".csv", size |-> 2,
       mday |-> 0, has_date |-> FALSE, xday |-> 0]
ListedFiles == {X1, X2, X3, X4}

FileLists ==
    {l \in UNION {[1..n -> ListedFiles] : n \in 0..MaxFilterFiles} :
        \A j, k \in 1..Len(l) : j # k => l[j] # l[k]}

\* The patterns a configuration sets; "(" does not compile.
Patterns == {"csv", "^a", "zz", "[ab]", "in/", "("}

\* prepare_regex_pattern, utils.py lines 180-228, for a configuration without
\* escapeSpecialCharacters and dontEscapeBrackets: unescaped square brackets
\* are escaped, the rest of these patterns is left as it is.
PrepareRegexPattern(pattern) ==
    IF pattern = "[ab]" THEN "\\[ab\\]" ELSE pattern

\* re.compile raises re.error
InvalidRegex(prepared) == prepared = "("

\* regex.search(text) for the prepared patterns and the names and paths of
\* the listing.
Search(prepared, text) ==
    CASE prepared = "csv" -> text \in {"a.csv", "c.csv", "/in/a.csv", "/in/c.csv"}
      [] prepared = "^a" -> text \in {"a.csv", "a.txt"}
      [] prepared = "in/" -> text \in {"/in/a.csv", "/in/b.CSV", "/in/a.txt", "/in/c.csv"}
      [] OTHER -> FALSE

\* lines 72-76: the name is searched, and the path too with appendFullPath.
Matches(pattern, file, cfg) ==
    \/ Search(PrepareRegexPattern(pattern), file.name)
    \/ cfg.appendFullPath /\ Search(PrepareRegexPattern(pattern), file.path)

\* str.lower() of the extensions and keywords that occur.
Lower(str) ==
    CASE str = ".CSV" -> ".csv"
      [] str = "CSV" -> "csv"
      [] str = "A" -> "a"
      [] str = "b.CSV" -> "b.csv"
      [] OTHER -> str

\* line 192: ext.lower() if ext.startswith('.') else f'.{ext.lower()}'
NormalizeExtension(ext) ==
    IF ext \in {".csv", ".CSV", ".txt"} THEN Lower(ext)
    ELSE CASE Lower(ext) = "csv" -> ".csv"
           [] Lower(ext) = "txt" -> ".txt"

\* keyword in filename_lower
Contains(lowered_name, keyword) ==
    CASE keyword = "a" -> lowered_name \in {"a.csv", "a.txt"}
      [] keyword = "csv" -> lowered_name \in {"a.csv", "b.csv", "c.csv"}
      [] OTHER -> FALSE

NoDay == [set |-> FALSE, day |-> 0]

\* A configuration that sets nothing.
NoFilters ==
    [sampleFiles |-> <<>>, pattern |-> "", exclude_pattern |-> "",
     skipPatterns |-> <<>>, appendFullPath |-> FALSE,
     excludeKeywords |-> <<>>, extensions |-> <<>>,
     min_size |-> 0, max_size |-> 0, last_days |-> 0,
     start_date |-> NoDay, end_date |-> NoDay,
     extractedDateStart |-> NoDay, extractedDateEnd |-> NoDay,
     extractedDateNextDays |-> 0, extractedDateLastDays |-> 0,
     sortByDateInFilename |-> FALSE]

\* The configurations: one that sets name filters, one that sets size and
\* mtime filters, one that sets the window of extracted dates.
NameConfigs ==
    {[NoFilters EXCEPT !.sampleFiles = sf, !.pattern = pt, !.exclude_pattern = ex,
                       !.skipPatterns = sk, !.appendFullPath = fp,
                       !.extensions = xt] :
        sf \in {<<>>, <<"a.csv", "a.txt">>},
        pt \in {""} \cup Patterns,
        ex \in {""} \cup Patterns,
        sk \in {<<>>, <<"zz">>, <<"^a">>, <<"(">>, <<"(", "^a">>, <<"csv", "(">>},
        fp \in BOOLEAN,
        xt \in {<<>>, <<".csv">>, <<"CSV">>}}

AttributeConfigs ==
    {[NoFilters EXCEPT !.excludeKeywords = kw, !.extensions = xt,
                       !.min_size = mn, !.max_size = mx, !.last_days = ld,
                       !.start_date = sd, !.end_date = ed] :
        kw \in {<<>>, <<"A">>, <<"zz", "csv">>},
        xt \in {<<>>, <<".csv">>},
        mn \in {0, 2}, mx \in {0, 2}, ld \in {0, 1},
        sd \in {NoDay, [set |-> TRUE, day |-> -1]},
        ed \in {NoDay, [set |-> TRUE, day |-> -1]}}

WindowConfigs ==
    {[NoFilters EXCEPT !.extractedDateStart = ws, !.extractedDateEnd = we,
                       !.extractedDateNextDays = nd, !.extractedDateLastDays = ld,
                       !.sortByDateInFilename = sb, !.extensions = xt] :
        ws \in {NoDay, [set |-> TRUE, day |-> -1]},
        we \in {NoDay, [set |-> TRUE, day |-> 1]},
        nd \in {0, 2}, ld \in {0, 2}, sb \in BOOLEAN,
        xt \in {<<>>, <<".csv">>}}

FilterConfigs == NameConfigs \cup AttributeConfigs \cup WindowConfigs

\* lines 44-62: both branches keep the files whose name is a sample file.
SampleStage(filtered_files, cfg) ==
    LET Keep(f) == \E k \in 1..Len(cfg.sampleFiles) : cfg.sampleFiles[k] = f.name
    IN  SelectSeq(filtered_files, Keep)

\* lines 65-84, without the except branch.
PatternStage(filtered_files, cfg) ==
    LET Keep(f) == Matches(cfg.pattern, f, cfg)
    IN  SelectSeq(filtered_files, Keep)

\* lines 87-108, without the except branch.
ExcludeStage(filtered_files, cfg) ==
    LET Keep(f) == ~ Matches(cfg.exclude_pattern, f, cfg)
    IN  SelectSeq(filtered_files, Keep)

\* lines 111-146: one pattern after the other; a pattern that does not
\* compile is logged and left out.
RECURSIVE SkipStage(_, _, _)
SkipStage(filtered_files, skip_patterns, cfg) ==
    IF skip_patterns = <<>> THEN filtered_files
    ELSE LET pattern == Head(skip_patterns)
             Keep(f) == ~ Matches(pattern, f, cfg)
         IN  SkipStage(IF InvalidRegex(PrepareRegexPattern(pattern))
                       THEN filtered_files
                       ELSE SelectSeq(filtered_files, Keep),
                       Tail(skip_patterns), cfg)

\* lines 151-188
KeywordStage(filtered_files, cfg) ==
    LET Keep(f) == ~ \E k \in 1..Len(cfg.excludeKeywords) :
                        Contains(Lower(f.name), Lower(cfg.excludeKeywords[k]))
    IN  SelectSeq(filtered_files, Keep)

\* The extension stage left out.
ExtensionStage_KeepAll(filtered_files, cfg) == filtered_files

\* lines 191-196
ExtensionStage(filtered_files, cfg) ==
    LET Keep(f) == \E k \in 1..Len(cfg.extensions) :
                       NormalizeExtension(cfg.extensions[k]) = Lower(f.ext)
    IN  SelectSeq(filtered_files, Keep)

\* lines 199-210: parse_size of a number of bytes is that number.
MinSizeStage(filtered_files, cfg) ==
    LET Keep(f) == f.size >= cfg.min_size
    IN  SelectSeq(filtered_files, Keep)

MaxSizeStage(filtered_files, cfg) ==
    LET Keep(f) == f.size <= cfg.max_size
    IN  SelectSeq(filtered_files, Keep)

\* lines 213-221: mtime >= now - days
LastDaysStage(filtered_files, cfg) ==
    LET Keep(f) == f.mday >= 0 - cfg.last_days
    IN  SelectSeq(filtered_files, Keep)

\* lines 226-233
StartDateStage(filtered_files, cfg) ==
    LET Keep(f) == f.mday >= cfg.start_date.day
    IN  SelectSeq(filtered_files, Keep)

\* lines 235-244
EndDateStage(filtered_files, cfg) ==
    LET Keep(f) == f.mday <= cfg.end_date.day
    IN  SelectSeq(filtered_files, Keep)

\* line 247: the condition of the extracted-date stage (sortByDateInPath is
\* not set in these configurations).
ExtractedDateEnabled(cfg) ==
    /\ \/ cfg.extractedDateStart.set
       \/ cfg.extractedDateEnd.set
       \/ cfg.extractedDateNextDays # 0
    /\ cfg.sortByDateInFilename

NoWindow == [has_start |-> FALSE, start |-> 0, has_end |-> FALSE, end |-> 0]

\* lines 251-283: start_date and end_date of the window, in this order: next
\* N days, last N days, explicit dates.
ExtractedDateWindow(cfg) ==
    LET w1 == IF cfg.extractedDateNextDays # 0
              THEN [has_start |-> TRUE, start |-> 0,
                    has_end |-> TRUE, end |-> cfg.extractedDateNextDays]
              ELSE NoWindow
        w2 == IF cfg.extractedDateLastDays # 0
              THEN IF cfg.extractedDateEnd.set
                   THEN [has_start |-> TRUE,
                         start |-> cfg.extractedDateEnd.day
                                      - (cfg.extractedDateLastDays - 1),
                         has_end |-> TRUE, end |-> cfg.extractedDateEnd.day]
                   ELSE [has_start |-> TRUE,
                         start |-> 0 - (cfg.extractedDateLastDays - 1),
                         has_end |-> TRUE, end |-> 0]
              ELSE w1
        w3 == IF cfg.extractedDateStart.set
              THEN [w2 EXCEPT !.has_start = TRUE,
                              !.start = cfg.extractedDateStart.day]
              ELSE w2
    IN  IF cfg.extractedDateEnd.set
        THEN [w3 EXCEPT !.has_end = TRUE, !.end = cfg.extractedDateEnd.day]
        ELSE w3

\* lines 285-332: a file without a date in its name is dropped, one with a
\* date outside the window too.
ExtractedDateStage(filtered_files, cfg) ==
    LET w == ExtractedDateWindow(cfg)
        Keep(f) == /\ f.has_date
                   /\ ~ (w.has_start /\ f.xday < w.start)
                   /\ ~ (w.has_end /\ f.xday > w.end)
    IN  SelectSeq(filtered_files, Keep)

\* One stage of the chain: applied when its setting is there.
StageIf(enabled, staged, filtered_files) ==
    IF enabled THEN staged ELSE filtered_files

\* filter_files, lines 24-343.  A pattern or an exclude pattern that does not
\* compile ends the call with [] (lines 82-84, 106-108).
FilterFiles(files, cfg) ==
    LET usePattern == cfg.sampleFiles = <<>> /\ cfg.pattern # ""
        s1 == IF cfg.sampleFiles # <<>> THEN SampleStage(files, cfg)
              ELSE StageIf(usePattern, PatternStage(files, cfg), files)
        s2 == StageIf(cfg.exclude_pattern # "", ExcludeStage(s1, cfg), s1)
        s3 == SkipStage(s2, cfg.skipPatterns, cfg)
        s4 == StageIf(cfg.excludeKeywords # <<>>, KeywordStage(s3, cfg), s3)
        s5 == StageIf(cfg.extensions # <<>>, ExtensionStage(s4, cfg), s4)
        s6 == StageIf(cfg.min_size # 0, MinSizeStage(s5, cfg), s5)
        s7 == StageIf(cfg.max_size # 0, MaxSizeStage(s6, cfg), s6)
        s8 == StageIf(cfg.last_days # 0, LastDaysStage(s7, cfg), s7)
        s9 == StageIf(cfg.start_date.set, StartDateStage(s8, cfg), s8)
        s10 == StageIf(cfg.end_date.set, EndDateStage(s9, cfg), s9)
    IN  IF usePattern /\ InvalidRegex(PrepareRegexPattern(cfg.pattern))
        THEN <<>>
        ELSE IF cfg.exclude_pattern # ""
                /\ InvalidRegex(PrepareRegexPattern(cfg.exclude_pattern))
        THEN <<>>
        ELSE StageIf(ExtractedDateEnabled(cfg), ExtractedDateStage(s10, cfg), s10)

InitF ==
    /\ NoDownload
    /\ NoObserver
    /\ NoServices
    /\ max_workers = 1
    /\ num_clients = 1
    /\ call_limit = 0
    /\ InitExecutor
    /\ \E files \in FileLists, cfg \in FilterConfigs :
          flt = [pc |-> "called", files |-> files, config |-> cfg,
                 out |-> <<>>, window |-> NoWindow]

\* The call filter_files(files, config) runs and returns.
FilterFilesCall ==
    /\ flt.pc = "called"
    /\ flt' = [flt EXCEPT
                  !.pc = "returned",
                  !.out = FilterFiles(flt.files, flt.config),
                  !.window = IF ExtractedDateEnabled(flt.config)
                             THEN ExtractedDateWindow(flt.config)
                             ELSE NoWindow]
    /\ UNCHANGED <<execVars, dlVars, obsVars, svcVars>>

NextF == FilterFilesCall

SpecF == InitF /\ [][NextF]_vars

\* ------------------------------------------------------------------ sort_files
\* The files handed to sort_files.  mtime is a datetime: a number of seconds,
\* timezone-aware or naive (listing.py lines 119-132 produce both); fdate and
\* pdate are the dates found in the name and in the directory part of the
\* path, has_fdate and has_pdate tell whether one was found.
T1 == [name |-> "a1.csv", path |-> "/d2/a1.csv", mtime |-> 10, aware |-> FALSE,
       has_fdate |-> TRUE, fdate |-> 3, has_pdate |-> TRUE, pdate |-> 2]
T2 == [name |-> "B2.csv", path |-> "/d1/B2.csv", mtime |-> 20, aware |-> FALSE,
       has_fdate |-> TRUE, fdate |-> 1, has_pdate |-> TRUE, pdate |-> 1]
T3 == [name |-> "c3.csv", path |-> "/c3.csv", mtime |-> 20, aware |-> FALSE,
       has_fdate |-> FALSE, fdate |-> 0, has_pdate |-> FALSE, pdate |-> 0]
T4 == [name |-> "A4.csv", path |-> "/d2/A4.csv", mtime |-> 5, aware |-> FALSE,
       has_fdate |-> TRUE, fdate |-> 2, has_pdate |-> TRUE, pdate |-> 2]
T5 == [name |-> "d5.csv", path |-> "/d3/d5.csv", mtime |-> 15, aware |-> TRUE,
       has_fdate |-> FALSE, fdate |-> 0, has_pdate |-> TRUE, pdate |-> 3]
SortedFiles == {T1, T2, T3, T4, T5}

SortLists ==
    {l \in UNION {[1..n -> SortedFiles] : n \in 0..MaxSortFiles} :
        \A j, k \in 1..Len(l) : j # k => l[j] # l[k]}

SortFlags == {"sortFilesByModifiedTime", "sortByDateInPath",
              "sortByDateInFilename", "getLatestFileOnly", "sortOnFileName"}

\* The configurations of sort_files: the strategy flags that are set, and
\* sortByDate, sortDescending, caseSensitive, num_files (0: not given).
SortConfigs ==
    [flags : SUBSET SortFlags, sortByDate : BOOLEAN, sortDescending : BOOLEAN,
     caseSensitive : BOOLEAN, num_files : 0..MaxNumFiles]

\* x['name'] and x['name'].lower() as sort keys: the rank of the name in the
\* order of str (upper case before lower case) and in the order of the
\* lowered names.
NameKey(file, case_sensitive) ==
    IF case_sensitive
    THEN CASE file.name = "A4.csv" -> 1 [] file.name = "B2.csv" -> 2
           [] file.name = "a1.csv" -> 3 [] file.name = "c3.csv" -> 4
           [] file.name = "d5.csv" -> 5
    ELSE CASE file.name = "a1.csv" -> 1 [] file.name = "A4.csv" -> 2
           [] file.name = "B2.csv" -> 3 [] file.name = "c3.csv" -> 4
           [] file.name = "d5.csv" -> 5

\* list.sort(key, reverse) on keys given as a function of the position: a
\* stable sort, equal keys keep their order also with reverse=True.
RECURSIVE StableInsert(_, _, _, _)
StableInsert(item, key, sorted, reverse) ==
    IF sorted = <<>> THEN <<item>>
    ELSE LET first == Head(sorted)
             before == IF reverse THEN key[item] > key[first]
                       ELSE key[item] < key[first]
         IN  IF before THEN <<item>> \o sorted
             ELSE <<first>> \o StableInsert(item, key, Tail(sorted), reverse)

RECURSIVE StableSort(_, _, _)
StableSort(items, key, reverse) ==
    IF items = <<>> THEN <<>>
    ELSE StableInsert(items[Len(items)], key,
                      StableSort(SubSeq(items, 1, Len(items) - 1), key, reverse),
                      reverse)

\* Comparing an aware with a naive datetime raises TypeError.
MtimeCompareRaises(files) ==
    \E j, k \in 1..Len(files) : files[j].aware /\ ~ files[k].aware

\* line 42: the number of files detect_date_location looks at, at most.
SampleSize == 10

\* lines 42-43: sample_files = files[:min(len(files), 10)]
SampleFiles(files) ==
    SubSeq(files, 1, IF Len(files) < SampleSize THEN Len(files) ELSE SampleSize)

\* lines 51-72: the files of the sample with a date in the name.
FilenameMatches(files) ==
    Cardinality({k \in 1..Len(SampleFiles(files)) : SampleFiles(files)[k].has_fdate})

\* lines 75-109: the files of the sample with a date in the directory part
\* of the path.
PathMatches(files) ==
    Cardinality({k \in 1..Len(SampleFiles(files)) : SampleFiles(files)[k].has_pdate})

\* detect_date_location, lines 21-128: flags added to the configuration.
DetectDateLocation(files, cfg) ==
    IF "sortByDateInPath" \in cfg.flags \/ "sortByDateInFilename" \in cfg.flags
    THEN cfg
    ELSE IF ~ cfg.sortByDate THEN cfg
    ELSE LET filename_matches == FilenameMatches(files)
             path_matches == PathMatches(files)
         IN  IF filename_matches > path_matches
             THEN [cfg EXCEPT !.flags = @ \cup {"sortByDateInFilename"}]
             ELSE IF path_matches > 0
             THEN [cfg EXCEPT !.flags = @ \cup {"sortByDateInPath"}]
             ELSE [cfg EXCEPT !.flags = @ \cup {"sortOnFileName"}]

\* lines 152-160: when detect_date_location is called.
ConfigAfterDetection(files, cfg) ==
    IF cfg.sortByDate \/ cfg.flags = {}
    THEN DetectDateLocation(files, cfg)
    ELSE cfg

\* The branch of the if / elif chain of lines 173-378 that is taken.
BranchTaken(cfg) ==
    IF "sortFilesByModifiedTime" \in cfg.flags THEN "sortFilesByModifiedTime"
    ELSE IF "sortByDateInPath" \in cfg.flags THEN "sortByDateInPath"
    ELSE IF "sortByDateInFilename" \in cfg.flags THEN "sortByDateInFilename"
    ELSE IF "getLatestFileOnly" \in cfg.flags THEN "getLatestFileOnly"
    ELSE IF "sortOnFileName" \in cfg.flags THEN "sortOnFileName"
    ELSE "none"

\* lines 243-271 and 314-341: the files with a date, sorted, then the files
\* without one.
SortByExtractedDate(files, in_path, reverse) ==
    LET HasDate(f) == IF in_path THEN f.has_pdate ELSE f.has_fdate
        NoDate(f) == ~ HasDate(f)
        with == SelectSeq(files, HasDate)
        key == [f \in Range(with) |-> IF in_path THEN f.pdate ELSE f.fdate]
    IN  StableSort(with, key, reverse) \o SelectSeq(files, NoDate)

\* lines 357-364 with only the first of the latest files kept.
LatestFiles_First(by_mtime) == <<Head(by_mtime)>>

\* lines 360-364: all files with the modification time of the first.
LatestFiles(by_mtime) ==
    LET IsLatest(f) == f.mtime = Head(by_mtime).mtime /\ f.aware = Head(by_mtime).aware
    IN  SelectSeq(by_mtime, IsLatest)

\* The except branches with an empty list.
Fallback_Empty(files) == <<>>

\* lines 200-203, 276-279, 346-349, 372-375, 400-403: files.copy()
Fallback(files) == files

\* The strategy of the branch raises.
SortRaises(files, branch) ==
    /\ branch \in {"sortFilesByModifiedTime", "getLatestFileOnly"}
    /\ MtimeCompareRaises(files)

\* lines 172-403: sorted_files after the branch.
SortedOrder(files, cfg) ==
    LET branch == BranchTaken(cfg)
        mtime == [f \in Range(files) |-> f.mtime]
        name == [f \in Range(files) |-> NameKey(f, cfg.caseSensitive)]
    IN  IF SortRaises(files, branch) THEN Fallback(files)
        ELSE CASE branch = "sortFilesByModifiedTime" ->
                      StableSort(files, mtime, cfg.sortDescending)
               [] branch = "sortByDateInPath" ->
                      SortByExtractedDate(files, TRUE, cfg.sortDescending)
               [] branch = "sortByDateInFilename" ->
                      SortByExtractedDate(files, FALSE, cfg.sortDescending)
               [] branch = "getLatestFileOnly" ->
                      LatestFiles(StableSort(files, mtime, TRUE))
               [] branch = "sortOnFileName" ->
                      StableSort(files, name, cfg.sortDescending)
               [] OTHER -> files

\* lines 412-415
Capped(sorted_files, cfg) ==
    IF /\ "getLatestFileOnly" \notin cfg.flags
       /\ cfg.num_files > 0
       /\ Len(sorted_files) > cfg.num_files
    THEN SubSeq(sorted_files, 1, cfg.num_files)
    ELSE sorted_files

\* sort_files, lines 131-432
SortFiles(files, config0) ==
    IF files = <<>> THEN <<>>
    ELSE LET cfg == ConfigAfterDetection(files, config0)
         IN  Capped(SortedOrder(files, cfg), cfg)

\* Everything but the call of sort_files is at rest.
AtRest ==
    /\ NoDownload
    /\ NoObserver
    /\ NoFilter
    /\ max_workers = 1
    /\ num_clients = 1
    /\ call_limit = 0
    /\ InitExecutor

InitS ==
    /\ AtRest
    /\ lst = "none"
    /\ conn = "none"
    /\ mod = "none"
    /\ lk = "none"
    /\ \E files \in SortLists, cfg \in SortConfigs :
          srt = [pc |-> "called", files |-> files, config |-> cfg,
                 branch |-> "none", raised |-> FALSE, sorted_files |-> <<>>,
                 out |-> <<>>]

\* The call sort_files(files, config) runs and returns.
SortFilesCall ==
    /\ srt.pc = "called"
    /\ LET cfg == ConfigAfterDetection(srt.files, srt.config)
           ran == srt.files # <<>>
       IN  srt' = [srt EXCEPT
                      !.pc = "returned",
                      !.branch = IF ran THEN BranchTaken(cfg) ELSE "none",
                      !.raised = ran /\ SortRaises(srt.files, BranchTaken(cfg)),
                      !.sorted_files = IF ran THEN SortedOrder(srt.files, cfg)
                                       ELSE <<>>,
                      !.out = SortFiles(srt.files, srt.config)]
    /\ UNCHANGED <<execVars, dlVars, obsVars, flVars, lst, conn, mod, lk>>

NextS == SortFilesCall

SpecS == InitS /\ [][NextS]_vars

\* ------------------------------------------------------------------ list_files
\* The remote tree under the root /in: the files it may hold.  A directory
\* exists when a file of the tree lies in it or below it.  One directory has a
\* name that ends with a blank.
ListRoot == "/in"
TreeFiles == {"/in/r.csv", "/in/tmp/x.csv", "/in/data/y.csv",
              "/in/data/tmp/z.csv", "/in/tmp /w.csv"}
TreeDirs == {"/in/tmp", "/in/data", "/in/data/tmp", "/in/tmp "}

\* os.path.dirname of the paths of the tree.
Dirname(path) ==
    CASE path \in {"/in/r.csv", "/in/tmp", "/in/data", "/in/tmp "} -> "/in"
      [] path = "/in/tmp/x.csv" -> "/in/tmp"
      [] path \in {"/in/data/y.csv", "/in/data/tmp"} -> "/in/data"
      [] path = "/in/data/tmp/z.csv" -> "/in/data/tmp"
      [] path = "/in/tmp /w.csv" -> "/in/tmp "

\* os.path.basename(folder_path.rstrip('/')), line 36
Basename(path) ==
    CASE path \in {"/in/tmp", "/in/data/tmp"} -> "tmp"
      [] path = "/in/data" -> "data"
      [] path = "/in/tmp " -> "tmp "

\* The directories a path lies under, below the root.
RECURSIVE Ancestors(_)
Ancestors(path) ==
    IF Dirname(path) = ListRoot THEN {}
    ELSE {Dirname(path)} \cup Ancestors(Dirname(path))

DirExists(dir, tree) == \E f \in tree : dir \in Ancestors(f)

\* The rank of a path in the order fs.ls returns the entries of a directory.
LsRank(path) ==
    CASE path = "/in/data" -> 1 [] path = "/in/data/tmp" -> 1
      [] path = "/in/data/y.csv" -> 2 [] path = "/in/r.csv" -> 2
      [] path = "/in/tmp" -> 3 [] path = "/in/tmp " -> 4
      [] OTHER -> 1

\* fs.ls(path, detail=True), line 76: the entries of a directory.
RECURSIVE LsOrdered(_)
LsOrdered(entries) ==
    IF entries = {} THEN <<>>
    ELSE LET first == CHOOSE e \in entries :
                          \A o \in entries : LsRank(e.name) <= LsRank(o.name)
         IN  <<first>> \o LsOrdered(entries \ {first})

Ls(path, tree) ==
    LsOrdered({[name |-> f, type |-> "file"] : f \in {g \in tree : Dirname(g) = path}}
              \cup {[name |-> d, type |-> "directory"] :
                       d \in {g \in TreeDirs : Dirname(g) = path /\ DirExists(g, tree)}})

\* str.strip() of the folder names a configuration gives.
Strip(str) ==
    CASE str = " tmp" -> "tmp"
      [] str = "tmp " -> "tmp"
      [] OTHER -> str

\* str.split(',') of the excludeFolders strings.
SplitCommas(str) ==
    CASE str = "tmp" -> <<"tmp">>
      [] str = "data, tmp" -> <<"data", " tmp">>
      [] str = "" -> <<>>

\* The values of excludeFolders: absent, a comma-separated string, a list.
ExcludeFoldersValues ==
    {[kind |-> "absent", str |-> "", list |-> <<>>],
     [kind |-> "str", str |-> "tmp", list |-> <<>>],
     [kind |-> "str", str |-> "data, tmp", list |-> <<>>],
     [kind |-> "list", str |-> "", list |-> <<"tmp">>],
     [kind |-> "list", str |-> "", list |-> <<"data">>],
     [kind |-> "list", str |-> "", list |-> <<"tmp ">>]}

\* The names a configuration gives, as written.
ConfiguredFolders(excludeFolders) ==
    CASE excludeFolders.kind = "str" -> Range(SplitCommas(excludeFolders.str))
      [] excludeFolders.kind = "list" -> Range(excludeFolders.list)
      [] OTHER -> {}

\* lines 39-45: the names a folder name is compared with.
ExcludeNames(excludeFolders) ==
    {Strip(n) : n \in ConfiguredFolders(excludeFolders)}

\* No folder is skipped.
ShouldSkipFolder_Never(folder_path, cfg) == FALSE

\* _should_skip_folder, lines 24-51
ShouldSkipFolder(folder_path, cfg) ==
    Basename(folder_path) \in ExcludeNames(cfg.excludeFolders)

NoListing == [file_list |-> <<>>, skipped_folders |-> <<>>, scanned |-> {},
              ls_log |-> <<>>]

\* The sleep before every retry is the same half second.
RetrySleep_Constant(retry_count) == 1

\* line 87: sleep_time = (2 ** (retry_count - 1)) * 0.5, in half seconds
RetrySleep(retry_count) == 2 ^ (retry_count - 1)

\* fs.ls(path) raises: at every call for a directory that cannot be read,
\* at the first call for one that answers the second time.
LsRaises(path, env, call) ==
    path \in env.unreadable \/ (path \in env.flaky /\ call = 1)

\* lines 71-92: the retry loop around fs.ls.  The result tells whether the
\* loop was left by break (ok), how often fs.ls was called and how long each
\* sleep was.
RECURSIVE LsRetryLoop(_, _, _, _, _)
LsRetryLoop(path, env, max_retries, retry_count, log) ==
    IF ~ (retry_count <= max_retries) THEN [log EXCEPT !.ok = FALSE]
    ELSE LET called == [log EXCEPT !.calls = @ + 1]
         IN  IF ~ LsRaises(path, env, called.calls)
             THEN [called EXCEPT !.ok = TRUE]
             ELSE IF retry_count + 1 <= max_retries
                  THEN LsRetryLoop(path, env, max_retries, retry_count + 1,
                           [called EXCEPT !.sleeps =
                               Append(@, RetrySleep(retry_count + 1))])
                  ELSE [called EXCEPT !.ok = FALSE]

\* _list_directory_recursive, lines 53-148.  A directory whose listing keeps
\* raising ends the call for that directory (lines 90-92, 146-148).
RECURSIVE ListDirectoryRecursive(_, _, _, _, _)
RECURSIVE ListEntries(_, _, _, _, _)
ListDirectoryRecursive(path, tree, env, cfg, acc) ==
    LET listing == LsRetryLoop(path, env, cfg.max_reconnect_attempts, 0,
                               [path |-> path, ok |-> FALSE, calls |-> 0,
                                sleeps |-> <<>>])
        logged == [acc EXCEPT !.ls_log = Append(@, listing)]
    IN  IF ~ listing.ok THEN logged
        ELSE ListEntries(Ls(path, tree), tree, env, cfg,
                         [logged EXCEPT !.scanned = @ \cup {path}])

ListEntries(dir_contents, tree, env, cfg, acc) ==
    IF dir_contents = <<>> THEN acc
    ELSE LET file_info == Head(dir_contents)
             rest == Tail(dir_contents)
         IN  IF file_info.type = "directory"
             THEN IF ShouldSkipFolder(file_info.name, cfg)
                  THEN ListEntries(rest, tree, env, cfg,
                           [acc EXCEPT !.skipped_folders = Append(@, file_info.name)])
                  ELSE IF cfg.skipSubFolders
                  THEN ListEntries(rest, tree, env, cfg, acc)
                  ELSE ListEntries(rest, tree, env, cfg,
                           ListDirectoryRecursive(file_info.name, tree,
                                                  env, cfg, acc))
             ELSE ListEntries(rest, tree, env, cfg,
                      [acc EXCEPT !.file_list = Append(@, file_info.name)])

\* list_files, lines 150-202: the paths of the files listed, the folders
\* skipped, the directories scanned.
ListFiles(fs_handle, tree, env, cfg) ==
    IF fs_handle = "none" THEN NoListing
    ELSE ListDirectoryRecursive(ListRoot, tree, env, cfg, NoListing)

InitL ==
    /\ AtRest
    /\ srt = "none"
    /\ conn = "none"
    /\ mod = "none"
    /\ lk = "none"
    /\ \E tree \in SUBSET TreeFiles, unreadable \in SUBSET {ListRoot, "/in/data"},
          flaky \in SUBSET {"/in/data"},
          ex \in ExcludeFoldersValues, sk \in BOOLEAN, handle \in {"alive", "none"},
          max_retries \in 0..MaxListRetries :
          lst = [pc |-> "called", fs |-> handle, tree |-> tree,
                 unreadable |-> unreadable,
                 flaky |-> flaky \ unreadable,
                 config |-> [excludeFolders |-> ex, skipSubFolders |-> sk,
                             max_reconnect_attempts |-> max_retries],
                 file_list |-> <<>>, skipped_folders |-> <<>>, scanned |-> {},
                 ls_log |-> <<>>]

\* The call list_files(fs, config) runs and returns.
ListFilesCall ==
    /\ lst.pc = "called"
    /\ LET r == ListFiles(lst.fs, lst.tree,
                          [unreadable |-> lst.unreadable, flaky |-> lst.flaky],
                          lst.config)
       IN  lst' = [lst EXCEPT !.pc = "returned",
                              !.file_list = r.file_list,
                              !.skipped_folders = r.skipped_folders,
                              !.scanned = r.scanned,
                              !.ls_log = r.ls_log]
    /\ UNCHANGED <<execVars, dlVars, obsVars, flVars, srt, conn, mod, lk>>

NextL == ListFilesCall

SpecL == InitL /\ [][NextL]_vars

\* ------------------------------------------------------------------ create_connection
\* config['type']: the key is absent, its value is null, or it is a string.
ConnectionTypes ==
    {[kind |-> "absent", value |-> ""], [kind |-> "null", value |-> ""]}
    \cup {[kind |-> "str", value |-> v] :
             v \in {"", "FTP", "sftp", "s3", "local", "http"}}

\* The configurations: the type, whether the S3 keys are there, the bucket.
ConnectionConfigs ==
    [type : ConnectionTypes, has_keys : BOOLEAN, bucket : {"", "b"}]

\* What the environment does: the filesystem constructor and the probe
\* (exists, makedirs and ls at lines 111-119, ls at line 75) succeed or raise.
ConnectionEnvs ==
    [constructor : {"ok", "raises"}, probe : {"ok", "raises"}]

\* str.lower() of the type strings.
LowerType(str) == IF str = "FTP" THEN "ftp" ELSE str

\* The outcomes of a call: (None, {}), (fs, options), an exception.
NoneEmpty == [raised |-> FALSE, fs |-> "none", options |-> "empty"]
Connected(options) == [raised |-> FALSE, fs |-> "alive", options |-> options]
Propagated == [raised |-> TRUE, fs |-> "none", options |-> "none"]

\* lines 59-86: the s3 branch, inside its own try.
CreateS3Connection(cfg, env) ==
    IF ~ cfg.has_keys THEN NoneEmpty
    ELSE IF env.constructor = "raises" THEN NoneEmpty
    ELSE IF cfg.bucket = "" THEN NoneEmpty
    ELSE IF env.probe = "raises" THEN NoneEmpty
    ELSE Connected("bucket_region")

\* create_connection, lines 14-127.  Line 26 calls lower() on the value of
\* config.get('type', '') before the try block is entered.
CreateConnection(cfg, env) ==
    IF cfg.type.kind = "null" THEN Propagated
    ELSE LET conn_type == IF cfg.type.kind = "absent" THEN ""
                          ELSE LowerType(cfg.type.value)
         IN  IF conn_type = "" THEN NoneEmpty
             ELSE IF conn_type = "s3" THEN CreateS3Connection(cfg, env)
             ELSE IF conn_type \notin {"ftp", "sftp", "local"} THEN NoneEmpty
             ELSE IF env.constructor = "raises" THEN NoneEmpty
             ELSE IF env.probe = "raises" THEN NoneEmpty
             ELSE Connected(IF conn_type = "local" THEN "fs_connection"
                            ELSE "host_fs_connection")

InitC ==
    /\ AtRest
    /\ srt = "none"
    /\ lst = "none"
    /\ mod = "none"
    /\ lk = "none"
    /\ \E cfg \in ConnectionConfigs, env \in ConnectionEnvs :
          conn = [pc |-> "called", config |-> cfg, env |-> env,
                  result |-> NoneEmpty]

\* The call create_connection(config) runs and returns or raises.
CreateConnectionCall ==
    /\ conn.pc = "called"
    /\ conn' = [conn EXCEPT !.pc = "done",
                            !.result = CreateConnection(conn.config, conn.env)]
    /\ UNCHANGED <<execVars, dlVars, obsVars, flVars, srt, lst, mod, lk>>

NextC == CreateConnectionCall

SpecC == InitC /\ [][NextC]_vars

\* ------------------------------------------------------------------ BaseModule.execute
\* The stages in the order execute calls them.
Stages == <<"initialize", "validate_config", "fetch", "validate", "upload">>

\* The fields _get_required_config_fields returns, and where a field is
\* found: in the channel, the fetcher or the environment configuration, or
\* nowhere.
RequiredFields == {"host", "path"}
ConfigSources == {"channel", "fetcher", "environment", "absent"}

\* The files a fetch may download.
FetchedFiles == {"f1", "f2"}

\* get_config_value, lines 62-71: None when no source has the key.
GetConfigValue(where, key) ==
    IF where[key] = "absent" THEN "None" ELSE "value"

\* validate_config, lines 73-93
ValidateConfig(where) ==
    \A field \in RequiredFields : GetConfigValue(where, field) # "None"

\* Every stage result counts as a success.
StageFailed_Never(stage_result) == FALSE

\* "if not fetch_result.get('success')", lines 108, 113, 118
StageFailed(stage_result) == ~ stage_result.success

NoStageResult == [success |-> FALSE, files |-> {}]

\* The dictionaries execute returns.
Failure(error) ==
    [success |-> FALSE, error |-> error, uploaded |-> {}]
Success(upload_result) ==
    [success |-> TRUE, error |-> "", uploaded |-> upload_result.files]

InitM ==
    /\ AtRest
    /\ srt = "none"
    /\ lst = "none"
    /\ conn = "none"
    /\ lk = "none"
    /\ \E where \in [RequiredFields -> ConfigSources] :
          mod = [pc |-> "initialize", where |-> where, invoked |-> <<>>,
                 succeeded |-> {}, raised_in |-> "none",
                 fetch_result |-> NoStageResult,
                 validation_result |-> NoStageResult,
                 upload_result |-> NoStageResult,
                 temp_dir |-> TRUE,
                 result |-> Failure("")]

\* A stage ran: it is recorded, and when it succeeded execute goes on.
Ran(stage, ok) ==
    [mod EXCEPT !.invoked = Append(@, stage),
                !.succeeded = IF ok THEN @ \cup {stage} ELSE @]

Return(m, r) == [m EXCEPT !.pc = "returned", !.result = r]

Raise(m, stage) ==
    [Return(m, Failure("exception")) EXCEPT !.raised_in = stage]

\* lines 98-100: await self._initialize_module()
ExecuteInitialize(outcome) ==
    /\ mod.pc = "initialize"
    /\ mod' = CASE outcome = "raise" -> Raise(Ran("initialize", FALSE), "initialize")
                [] outcome = "false" ->
                       Return(Ran("initialize", FALSE), Failure("Initialization failed"))
                [] outcome = "true" ->
                       [Ran("initialize", TRUE) EXCEPT !.pc = "validate_config"]
    /\ UNCHANGED <<execVars, dlVars, obsVars, flVars, srt, lst, conn, lk>>

\* lines 102-104: self.validate_config()
ExecuteValidateConfig ==
    /\ mod.pc = "validate_config"
    /\ mod' = IF ValidateConfig(mod.where)
              THEN [Ran("validate_config", TRUE) EXCEPT !.pc = "fetch"]
              ELSE Return(Ran("validate_config", FALSE),
                          Failure("Config validation failed"))
    /\ UNCHANGED <<execVars, dlVars, obsVars, flVars, srt, lst, conn, lk>>

\* lines 106-109: await self.fetch_data()
ExecuteFetch(outcome, files) ==
    /\ mod.pc = "fetch"
    /\ outcome \in {"raise", "false"} => files = {}
    /\ LET fetch_result == [success |-> outcome = "true", files |-> files]
           m == [Ran("fetch", outcome = "true") EXCEPT !.fetch_result = fetch_result]
       IN  mod' = IF outcome = "raise" THEN Raise(Ran("fetch", FALSE), "fetch")
                  ELSE IF StageFailed(fetch_result)
                  THEN Return(m, Failure("Fetch failed"))
                  ELSE [m EXCEPT !.pc = "validate"]
    /\ UNCHANGED <<execVars, dlVars, obsVars, flVars, srt, lst, conn, lk>>

\* lines 111-114: await self.validate_data(fetch_result)
ExecuteValidate(outcome, valid_files) ==
    /\ mod.pc = "validate"
    /\ valid_files \subseteq mod.fetch_result.files
    /\ outcome \in {"raise", "false"} => valid_files = {}
    /\ LET validation_result == [success |-> outcome = "true", files |-> valid_files]
           m == [Ran("validate", outcome = "true")
                     EXCEPT !.validation_result = validation_result]
       IN  mod' = IF outcome = "raise" THEN Raise(Ran("validate", FALSE), "validate")
                  ELSE IF StageFailed(validation_result)
                  THEN Return(m, Failure("Validation failed"))
                  ELSE [m EXCEPT !.pc = "upload"]
    /\ UNCHANGED <<execVars, dlVars, obsVars, flVars, srt, lst, conn, lk>>

\* lines 116-119 with _upload_files, lines 134-152: the valid files are
\* reported as uploaded, or the except branch reports a failure.
ExecuteUpload(outcome) ==
    /\ mod.pc = "upload"
    /\ LET upload_result ==
               [success |-> outcome = "true",
                files |-> IF outcome = "true" THEN mod.validation_result.files ELSE {}]
           m == [Ran("upload", outcome = "true") EXCEPT !.upload_result = upload_result]
       IN  mod' = IF StageFailed(upload_result)
                  THEN Return(m, Failure("Upload failed"))
                  ELSE [m EXCEPT !.pc = "cleanup"]
    /\ UNCHANGED <<execVars, dlVars, obsVars, flVars, srt, lst, conn, lk>>

\* lines 121-129 with _cleanup, lines 154-161: the temp directory is removed,
\* or removing it fails and the failure is swallowed.
ExecuteCleanupReturn(removed) ==
    /\ mod.pc = "cleanup"
    /\ mod' = [Return(mod, Success(mod.upload_result)) EXCEPT !.temp_dir = ~ removed]
    /\ UNCHANGED <<execVars, dlVars, obsVars, flVars, srt, lst, conn, lk>>

NextM ==
    \/ \E outcome \in {"true", "false", "raise"} : ExecuteInitialize(outcome)
    \/ ExecuteValidateConfig
    \/ \E outcome \in {"true", "false", "raise"}, files \in SUBSET FetchedFiles :
          ExecuteFetch(outcome, files)
    \/ \E outcome \in {"true", "false", "raise"}, files \in SUBSET FetchedFiles :
          ExecuteValidate(outcome, files)
    \/ \E outcome \in {"true", "false"} : ExecuteUpload(outcome)
    \/ \E removed \in BOOLEAN : ExecuteCleanupReturn(removed)

SpecM == InitM /\ [][NextM]_vars

\* ------------------------------------------------------------------ the three locks
\* The methods of JobExecutor once more, with every acquisition of a lock a
\* step of its own: a thread that asks for a lock another thread owns cannot
\* take the step.  lk.stack[t] is the call stack of thread t (the running
\* frame first), lk.held[t] the locks it holds in the order it got them.
Locks == {"queue_lock", "active_jobs_lock", "stats_lock"}
LkThreads == 1..(LkClients + LkWorkers)
LkClientThreads == 1..LkClients
LkWorkerThreads == (LkClients + 1)..(LkClients + LkWorkers)
LkJobs == {"j1", "j2"}

Frame(fn, at, job, fut) == [fn |-> fn, pc |-> at, job |-> job, fut |-> fut]

Acq(s, t, l) == [s EXCEPT !.owner[l] = t, !.held[t] = Append(@, l)]

Rel(s, t, l) ==
    LET Other(x) == x # l
    IN  [s EXCEPT !.owner[l] = 0, !.held[t] = SelectSeq(@, Other)]

Goto(s, t, at) ==
    [s EXCEPT !.stack[t] = <<[Head(@) EXCEPT !.pc = at]>> \o Tail(@)]

Push(s, t, frame) == [s EXCEPT !.stack[t] = <<frame>> \o @]

Pop(s, t) == [s EXCEPT !.stack[t] = Tail(@)]

\* The running frame ends with a call whose return it only passes on.
Become(s, t, frame) == Push(Pop(s, t), t, frame)

Free(l) == lk.owner[l] = 0

Running(t, fn, at) ==
    /\ lk.stack[t] # <<>>
    /\ Head(lk.stack[t]).fn = fn
    /\ Head(lk.stack[t]).pc = at

\* The locked region of _process_queue is not left before the callback is
\* attached.
LeaveLockedRegion_Kept(s, t) == s

\* lines 156-175: the end of the two with blocks, before the callback is
\* attached at line 183.
LeaveLockedRegion(s, t) == Rel(Rel(s, t, "active_jobs_lock"), t, "queue_lock")

\* get_executor_stats with the two locks taken the other way round.
StatsLockOrder_Reversed == <<"active_jobs_lock", "queue_lock">>

\* lines 459-460: with self.queue_lock: with self.active_jobs_lock:
StatsLockOrder == <<"queue_lock", "active_jobs_lock">>

InitK ==
    /\ AtRest
    /\ srt = "none"
    /\ lst = "none"
    /\ conn = "none"
    /\ mod = "none"
    /\ \E mw \in 1..LkWorkers :
          lk = [max_workers |-> mw,
                owner |-> [l \in Locks |-> 0],
                held |-> [t \in LkThreads |-> <<>>],
                stack |-> [t \in LkThreads |-> <<>>],
                job_queue |-> <<>>,
                active_jobs |-> EmptyDict,
                futures |-> <<>>,
                completed |-> 0,
                calls |-> 0,
                submits |-> 0,
                entered_holding |-> {},
                inline |-> FALSE,
                drained |-> FALSE]

\* A client thread calls submit_job, get_job_status or get_executor_stats.
LkCall(t, fn, job) ==
    /\ t \in LkClientThreads
    /\ lk.stack[t] = <<>>
    /\ lk.calls < LkCalls
    /\ fn = "submit_job" => lk.submits < LkSubmits
    /\ fn = "get_executor_stats" => job = "j1"
    /\ lk' = [Push(lk, t, Frame(fn, IF fn = "get_job_status" THEN "acq_active"
                                    ELSE IF fn = "submit_job" THEN "acq_queue"
                                    ELSE "acq_stats", job, 0))
                 EXCEPT !.calls = @ + 1,
                        !.submits = IF fn = "submit_job" THEN @ + 1 ELSE @]
    /\ UNCHANGED <<execVars, dlVars, obsVars, flVars, srt, lst, conn, mod>>

\* The attachment of the completion callback to the future of the running
\* frame (add_done_callback): run at once when the future is finished.
Attach(s, t, fut, job) ==
    IF s.futures[fut].state = "done"
    THEN Push(s, t, Frame("_job_completed", "start", job, fut))
    ELSE [s EXCEPT !.futures[fut].cb = TRUE]

\* submit_job, lines 105-138
LkSubmitJob(t) ==
    /\ lk.stack[t] # <<>>
    /\ LET f == Head(lk.stack[t])
       IN  /\ f.fn = "submit_job"
           /\ \/ /\ f.pc = "acq_queue"
                 /\ Free("queue_lock")
                 /\ lk' = Goto(Acq(lk, t, "queue_lock"), t, "queue_region")
              \/ /\ f.pc = "queue_region"
                 /\ lk' = IF f.job \in Range(lk.job_queue)
                          THEN Pop(Rel(lk, t, "queue_lock"), t)
                          ELSE [Goto(Rel(lk, t, "queue_lock"), t, "acq_stats")
                                   EXCEPT !.job_queue = Append(@, f.job)]
              \/ /\ f.pc = "acq_stats"
                 /\ Free("stats_lock")
                 /\ lk' = Goto(Acq(lk, t, "stats_lock"), t, "stats_region")
              \/ /\ f.pc = "stats_region"
                 /\ lk' = Become(Rel(lk, t, "stats_lock"), t,
                                 Frame("_process_queue", "acq_queue", "none", 0))
    /\ UNCHANGED <<execVars, dlVars, obsVars, flVars, srt, lst, conn, mod>>

\* _process_queue, lines 148-192
LkProcessQueue(t) ==
    /\ lk.stack[t] # <<>>
    /\ LET f == Head(lk.stack[t])
           fut == Len(lk.futures) + 1
           job == Head(lk.job_queue)
           started == [lk EXCEPT
                          !.job_queue = Tail(@),
                          !.futures = Append(@, [job |-> job, state |-> "pending",
                                                 cb |-> FALSE, raises |-> FALSE]),
                          !.active_jobs = DictPut(@, job, fut),
                          !.drained = @ \/ Len(lk.stack[t]) > 1
                                        \/ t \in LkWorkerThreads]
           located == [started EXCEPT
                          !.stack[t] = <<Frame("_process_queue", "acq_stats",
                                               job, fut)>> \o Tail(@)]
       IN  /\ f.fn = "_process_queue"
           /\ \/ /\ f.pc = "acq_queue"
                 /\ Free("queue_lock")
                 /\ lk' = Goto(Acq(lk, t, "queue_lock"), t, "acq_active")
              \/ /\ f.pc = "acq_active"
                 /\ Free("active_jobs_lock")
                 /\ lk' = Goto(Acq(lk, t, "active_jobs_lock"), t, "both_region")
              \/ /\ f.pc = "both_region"
                 /\ lk' = IF \/ Cardinality(DOMAIN lk.active_jobs) >= lk.max_workers
                             \/ lk.job_queue = <<>>
                          THEN Pop(Rel(Rel(lk, t, "active_jobs_lock"), t, "queue_lock"), t)
                          ELSE LeaveLockedRegion(located, t)
              \/ /\ f.pc = "acq_stats"
                 /\ Free("stats_lock")
                 /\ lk' = Goto(Acq(lk, t, "stats_lock"), t, "stats_region")
              \/ /\ f.pc = "stats_region"
                 /\ lk' = Goto(Rel(lk, t, "stats_lock"), t, "add_done_callback")
              \/ /\ f.pc = "add_done_callback"
                 /\ lk' = Attach(Goto(lk, t, "acq_snapshot"), t, f.fut, f.job)
              \/ /\ f.pc = "acq_snapshot"
                 /\ Free("stats_lock")
                 /\ lk' = Goto(Acq(lk, t, "stats_lock"), t, "snapshot_region")
              \/ /\ f.pc = "snapshot_region"
                 /\ lk' = Pop(Rel(lk, t, "stats_lock"), t)
    /\ UNCHANGED <<execVars, dlVars, obsVars, flVars, srt, lst, conn, mod>>

\* _job_completed, lines 342-411
LkJobCompleted(t) ==
    /\ lk.stack[t] # <<>>
    /\ LET f == Head(lk.stack[t])
           tracked == f.job \in DOMAIN lk.active_jobs
           removed == [lk EXCEPT !.active_jobs = DictDel(@, f.job)]
           drain == Frame("_process_queue", "acq_queue", "none", 0)
       IN  /\ f.fn = "_job_completed"
           /\ \/ /\ f.pc = "start"
                 /\ lk' = [Goto(lk, t, IF lk.futures[f.fut].raises
                                       THEN "except_acq_active"
                                       ELSE "acq_active")
                              EXCEPT !.entered_holding = @ \cup Range(lk.held[t]),
                                     !.inline = @ \/ Len(lk.stack[t]) > 1]
              \/ /\ f.pc = "acq_active"
                 /\ Free("active_jobs_lock")
                 /\ lk' = Goto(Acq(lk, t, "active_jobs_lock"), t, "active_region")
              \/ /\ f.pc = "active_region"
                 /\ lk' = IF tracked
                          THEN Goto(Rel(removed, t, "active_jobs_lock"), t, "acq_stats")
                          ELSE Pop(Rel(lk, t, "active_jobs_lock"), t)
              \/ /\ f.pc = "acq_stats"
                 /\ Free("stats_lock")
                 /\ lk' = Goto(Acq(lk, t, "stats_lock"), t, "stats_region")
              \/ /\ f.pc = "stats_region"
                 /\ lk' = [Goto(Rel(lk, t, "stats_lock"), t, "acq_snapshot")
                              EXCEPT !.completed = @ + 1]
              \/ /\ f.pc = "acq_snapshot"
                 /\ Free("stats_lock")
                 /\ lk' = Goto(Acq(lk, t, "stats_lock"), t, "snapshot_region")
              \/ /\ f.pc = "snapshot_region"
                 /\ lk' = Become(Rel(lk, t, "stats_lock"), t, drain)
              \/ /\ f.pc = "except_acq_active"
                 /\ Free("active_jobs_lock")
                 /\ lk' = Goto(Acq(lk, t, "active_jobs_lock"), t, "except_region")
              \/ /\ f.pc = "except_region"
                 /\ lk' = IF tracked
                          THEN Goto(removed, t, "except_acq_stats")
                          ELSE Become(Rel(lk, t, "active_jobs_lock"), t, drain)
              \/ /\ f.pc = "except_acq_stats"
                 /\ Free("stats_lock")
                 /\ lk' = Goto(Acq(lk, t, "stats_lock"), t, "except_stats_region")
              \/ /\ f.pc = "except_stats_region"
                 /\ lk' = Become(Rel(Rel(lk, t, "stats_lock"), t, "active_jobs_lock"),
                                 t, drain)
    /\ UNCHANGED <<execVars, dlVars, obsVars, flVars, srt, lst, conn, mod>>

\* get_job_status, lines 413-451
LkGetJobStatus(t) ==
    /\ lk.stack[t] # <<>>
    /\ LET f == Head(lk.stack[t])
       IN  /\ f.fn = "get_job_status"
           /\ \/ /\ f.pc = "acq_active"
                 /\ Free("active_jobs_lock")
                 /\ lk' = Goto(Acq(lk, t, "active_jobs_lock"), t, "active_region")
              \/ /\ f.pc = "active_region"
                 /\ lk' = IF f.job \in DOMAIN lk.active_jobs
                          THEN Pop(Rel(lk, t, "active_jobs_lock"), t)
                          ELSE Goto(Rel(lk, t, "active_jobs_lock"), t, "acq_queue")
              \/ /\ f.pc = "acq_queue"
                 /\ Free("queue_lock")
                 /\ lk' = Goto(Acq(lk, t, "queue_lock"), t, "queue_region")
              \/ /\ f.pc = "queue_region"
                 /\ lk' = Pop(Rel(lk, t, "queue_lock"), t)
    /\ UNCHANGED <<execVars, dlVars, obsVars, flVars, srt, lst, conn, mod>>

\* get_executor_stats, lines 453-474
LkGetExecutorStats(t) ==
    /\ lk.stack[t] # <<>>
    /\ LET f == Head(lk.stack[t])
       IN  /\ f.fn = "get_executor_stats"
           /\ \/ /\ f.pc = "acq_stats"
                 /\ Free("stats_lock")
                 /\ lk' = Goto(Acq(lk, t, "stats_lock"), t, "stats_region")
              \/ /\ f.pc = "stats_region"
                 /\ lk' = Goto(Rel(lk, t, "stats_lock"), t, "acq_first")
              \/ /\ f.pc = "acq_first"
                 /\ Free(StatsLockOrder[1])
                 /\ lk' = Goto(Acq(lk, t, StatsLockOrder[1]), t, "acq_second")
              \/ /\ f.pc = "acq_second"
                 /\ Free(StatsLockOrder[2])
                 /\ lk' = Goto(Acq(lk, t, StatsLockOrder[2]), t, "both_region")
              \/ /\ f.pc = "both_region"
                 /\ lk' = Pop(Rel(Rel(lk, t, StatsLockOrder[2]), t, StatsLockOrder[1]), t)
    /\ UNCHANGED <<execVars, dlVars, obsVars, flVars, srt, lst, conn, mod>>

\* A pool thread takes the oldest work item that waits.
LkWorkerTake(w) ==
    /\ w \in LkWorkerThreads
    /\ w - LkClients <= lk.max_workers
    /\ lk.stack[w] = <<>>
    /\ \E fut \in 1..Len(lk.futures) :
          /\ lk.futures[fut].state = "pending"
          /\ \A o \in 1..(fut - 1) : lk.futures[o].state # "pending"
          /\ lk' = [Push(lk, w, Frame("_execute_job", "run", lk.futures[fut].job, fut))
                       EXCEPT !.futures[fut].state = "running"]
    /\ UNCHANGED <<execVars, dlVars, obsVars, flVars, srt, lst, conn, mod>>

\* _execute_job returns or raises: the future is finished, and the callback,
\* when one is attached, runs in the pool thread.
LkExecuteJob(w, raises) ==
    /\ Running(w, "_execute_job", "run")
    /\ LET f == Head(lk.stack[w])
           finished == [lk EXCEPT !.futures[f.fut].state = "done",
                                  !.futures[f.fut].raises = raises]
       IN  lk' = IF lk.futures[f.fut].cb
                 THEN Become(finished, w, Frame("_job_completed", "start", f.job, f.fut))
                 ELSE Pop(finished, w)
    /\ UNCHANGED <<execVars, dlVars, obsVars, flVars, srt, lst, conn, mod>>

NextK ==
    \/ \E t \in LkClientThreads, job \in LkJobs,
          fn \in {"submit_job", "get_job_status", "get_executor_stats"} :
          LkCall(t, fn, job)
    \/ \E t \in LkThreads : LkSubmitJob(t)
    \/ \E t \in LkThreads : LkProcessQueue(t)
    \/ \E t \in LkThreads : LkJobCompleted(t)
    \/ \E t \in LkThreads : LkGetJobStatus(t)
    \/ \E t \in LkThreads : LkGetExecutorStats(t)
    \/ \E w \in LkWorkerThreads : LkWorkerTake(w)
    \/ \E w \in LkWorkerThreads, raises \in BOOLEAN : LkExecuteJob(w, raises)

SpecK == InitK /\ [][NextK]_vars

\* ------------------------------------------------------------------ properties
Requests == {JobRequest(p[1], p[2]) : p \in Submitted}

InQueue(req) == \E i \in 1..Len(job_queue) : job_queue[i] = req
InActive(req) == \E k \in DOMAIN active_jobs : futures[active_jobs[k]].req = req
InCompleted(req) ==
    \E i \in 1..Len(completed_jobs) :
        /\ completed_jobs[i].job_id = req.job_id
        /\ completed_jobs[i].service_id = req.service_id

\* No thread is inside submit_job, _process_queue, _execute_job or
\* _job_completed, nothing is queued, active or waiting for a pool thread.
Quiescent ==
    /\ \A t \in Threads : pc[t] = "idle"
    /\ job_queue = <<>>
    /\ active_jobs = EmptyDict
    /\ work_queue = <<>>

NoneRaised == \A i \in 1..Len(futures) : futures[i].outcome # "raised"

PairwiseDistinct(s) == \A i, j \in 1..Len(s) : i # j => s[i] # s[j]

\* C1: in every reachable state the active table holds at most max_workers
\* entries.
C1_ActiveWithinMaxWorkers == Cardinality(DOMAIN active_jobs) <= max_workers

\* A drain is attempted while the table is full and a request waits.
C1_Witness ==
    /\ Cardinality(DOMAIN active_jobs) = max_workers
    /\ job_queue # <<>>
    /\ \E t \in Threads : pc[t] = "pq_check"

\* C2: N > max_workers jobs with pairwise distinct pairs have been submitted
\* and everything has come to rest (queue empty, active table empty, all
\* threads idle): all N were handed to the pool and
\* total_completed + total_failed = N.
C2_AllCountedAtRest ==
    (/\ Quiescent
     /\ calls = call_limit
     /\ Len(appended) > max_workers
     /\ PairwiseDistinct(appended))
    => /\ Len(futures) = Len(appended)
       /\ stats.total_completed + stats.total_failed = Len(appended)

\* C3: a (job_id, service_id) pair is in at most one of the queue, the active
\* table and the completed history.
C3_AtMostOneContainer ==
    \A req \in Requests :
        ~ (InQueue(req) /\ InActive(req))
        /\ ~ (InQueue(req) /\ InCompleted(req))
        /\ ~ (InActive(req) /\ InCompleted(req))

\* C4: a submit_job call for a pair that is in the queue returns False and
\* leaves the queue and the statistics as they are; every call that appended
\* its request returns True (calls still in progress have not returned yet).
C4_DuplicateRejected ==
    /\ [][\A p \in Submitted :
            ((\E i \in 1..Len(job_queue) : job_queue[i] = JobRequest(p[1], p[2]))
              /\ \E t \in Clients : SubmitJob(t, p[1], p[2]))
            => /\ returned'.False = returned.False + 1
               /\ returned'.True = returned.True
               /\ job_queue' = job_queue
               /\ stats' = stats
               /\ appended' = appended]_vars
    /\ [](/\ returned.False = calls - Len(appended)
          /\ returned.True =
                Len(appended) - Cardinality({t \in Clients : pc[t] # "idle"}))

\* A call was rejected while the call that queued the pair had returned True.
C4_Witness ==
    /\ returned.False >= 1
    /\ returned.True >= 1
    /\ job_queue # <<>>

\* C5: requests are handed to the pool in the order in which submit_job
\* appended them: the i-th future belongs to the i-th appended request.
C5_FifoHandOff ==
    /\ Len(futures) <= Len(appended)
    /\ \A i \in 1..Len(futures) : futures[i].req = appended[i]

\* Two different requests have been handed over, the second one taken from
\* in front of a request that is still waiting.
C5_Witness ==
    /\ Len(futures) >= 2
    /\ futures[1].req # futures[2].req
    /\ job_queue # <<>>
    /\ job_queue[1] # futures[2].req

\* C6: once everything has come to rest, every accepted submission has
\* exactly one JobResult in the completed history (stated for jobs whose
\* work returned a result).
C6_OneResultPerAccepted ==
    (Quiescent /\ NoneRaised) =>
        \A req \in Requests :
            Cardinality({i \in 1..Len(completed_jobs) :
                            /\ completed_jobs[i].job_id = req.job_id
                            /\ completed_jobs[i].service_id = req.service_id})
            = Cardinality({i \in 1..Len(appended) : appended[i] = req})

\* The remote file of a path.
FileOf(path) == CHOOSE f \in RemoteFiles : f.path = path

\* The run resumes from the state file it found.
ResumedRun ==
    /\ h.state0.exists
    /\ h.state0.processed_files # <<>>
    /\ config.resume_transfer

\* C7: at every point where the state has just been persisted, every path
\* this run added to processed_files has a local file of exactly the remote
\* size.
C7_AddedHaveExactLocal ==
    h.saved =>
        \A k \in 1..Len(h.added) :
            LET file_info == FileOf(h.added[k])
            IN  /\ disk[LocalFilePath(file_info)].exists
                /\ disk[LocalFilePath(file_info)].size = file_info.size

\* C8: on a resumed run no transfer is attempted for a path of the persisted
\* processed_files, and before the first attempt the state is saved again with
\* the persisted processed_files and exactly the target paths that are not
\* among them as remaining files.
C8_ResumeSkipsProcessed ==
    ResumedRun =>
        /\ h.attempted \cap Range(h.state0.processed_files) = {}
        /\ (dpc # "start" /\ h.input # <<>>) =>
              LET rest == {h.input[k].path : k \in 1..Len(h.input)}
                              \ Range(h.state0.processed_files)
              IN  /\ h.first_save.exists
                  /\ h.first_save.processed_files = h.state0.processed_files
                  /\ Range(h.first_save.remaining_files) = rest
                  /\ Len(h.first_save.remaining_files) = Cardinality(rest)
        /\ h.attempted # {} => h.first_save.exists

\* Processed {A, B}, targets A, B, C: the run has returned and only C was
\* attempted.
C8_Witness ==
    /\ ResumedRun
    /\ h.state0.processed_files = <<F1.path, F2.path>>
    /\ Range(h.input) = {F1, F2, F3}
    /\ h.attempted = {F3.path}
    /\ dpc = "returned"

\* C9: the retries consumed for the file in hand (failed transfers, size
\* mismatches, failed reconnections) stay within the ceiling, counting the
\* failure that exhausts it; on return every file of the work list is counted
\* in exactly one of succeeded, skipped and failed.
C9_RetriesWithinCeiling ==
    /\ h.consumed <= config.max_reconnect_attempts + 1
    /\ (dpc = "returned" /\ h.input # <<>>) =>
          Len(h.added) + dl.skipped_count + dl.failed_count = Len(dl.files)

\* C10: while every attempt for the file in hand wrote a wrong byte count,
\* the local file is removed after each attempt, the file is failed at the
\* attempt number max_reconnect_attempts + 1 and not before, failed_count
\* grows by one and the loop moves to the next file; the loop never goes
\* back to a file; on return no local file written for such a file is left.
C10_WrongSizeFailsClean ==
    /\ [][(dpc = "verify" /\ h.only_wrong) =>
            LET file_info == dl.files[dl.i + 1]
            IN  /\ disk'[LocalFilePath(file_info)] = Absent
                /\ dl'.retries = dl.retries + 1
                /\ IF h.attempts = config.max_reconnect_attempts + 1
                   THEN /\ dl'.failed_count = dl.failed_count + 1
                        /\ dl'.failed_files = Append(dl.failed_files, file_info.name)
                        /\ dl'.i = dl.i + 1
                        /\ dl'.success_count = dl.success_count
                   ELSE /\ dl'.failed_count = dl.failed_count
                        /\ dl'.i = dl.i
                        /\ dpc' = "retry_loop"]_vars
    /\ [][dl'.i >= dl.i]_vars
    /\ [](dpc = "returned" =>
            \A path \in h.wrong_failed :
                \A dest \in Destinations : disk[dest].src # path)

\* With one retry allowed, a file failed after wrong byte counts only, a
\* later file succeeded and the run returned.
C10_Witness ==
    /\ dpc = "returned"
    /\ config.max_reconnect_attempts = MaxRetries
    /\ F3.path \in h.wrong_failed
    /\ h.added # <<>>
    /\ dl.failed_count = 1

\* The position of a remote file in the list passed to download_files.
InputIndex(file_info) == CHOOSE k \in 1..Len(h.input) : h.input[k] = file_info

\* C11: when download_files returns from a non-empty work list, there is no
\* persisted state exactly if no file failed and no file was skipped; a run
\* in which every file of the work list was downloaded leaves none.
C11_ClearedIffCleanRun ==
    (dpc = "returned" /\ h.input # <<>>) =>
        /\ (~ state_file.exists) <=> (dl.failed_count = 0 /\ dl.skipped_count = 0)
        /\ ({h.input[k].path : k \in 1..Len(h.input)} \subseteq Range(h.added))
              => ~ state_file.exists

\* A run that found a state file, downloaded both files of its list and
\* cleared the state.
C11_Witness ==
    /\ dpc = "returned"
    /\ h.state0.exists
    /\ Len(h.added) = 2
    /\ Len(h.input) = 2
    /\ ~ state_file.exists

\* C12: when a run ends with a failed or a skipped file, the state persisted
\* last holds the paths downloaded successfully as processed_files and
\* exactly the target paths that were not as remaining_files.
C12_FinalPartitionPersisted ==
    (dpc = "returned" /\ h.input # <<>>
       /\ (dl.failed_count > 0 \/ dl.skipped_count > 0)) =>
        /\ state_file.exists
        /\ state_file.processed_files = dl.processed_files
        /\ Range(state_file.remaining_files) =
              {h.input[k].path : k \in 1..Len(h.input)} \ Range(dl.processed_files)

\* C13: the files are taken in hand in the order in which they stand in the
\* list passed to download_files.
C13_InputOrderKept ==
    dpc # "start" =>
        \A j, k \in 1..Len(dl.files) :
            j < k => InputIndex(dl.files[j]) < InputIndex(dl.files[k])

\* C14: get_job_status answers RUNNING exactly when the pair's key is in the
\* active table; if it is not, QUEUED with the 1-based place of the pair in
\* the queue exactly when the pair is queued; if it is not, COMPLETED or
\* FAILED by the success flag of a JobResult of the pair; None without one.
C14_StatusCascade ==
    /\ [][\A p \in Submitted :
            GetJobStatusActive(p[1], p[2]) =>
                IF JobKey(JobRequest(p[1], p[2])) \in DOMAIN active_jobs
                THEN obs'.pc = "idle" /\ obs'.result.status = "RUNNING"
                ELSE obs'.pc = "gs_queue"]_vars
    /\ [][GetJobStatusQueue =>
            IF InQueue(JobRequest(obs.job_id, obs.service_id))
            THEN /\ obs'.pc = "idle"
                 /\ obs'.result.status = "QUEUED"
                 /\ obs'.result.queue_position \in 1..Len(job_queue)
                 /\ job_queue[obs'.result.queue_position] =
                        JobRequest(obs.job_id, obs.service_id)
            ELSE obs'.pc = "gs_completed"]_vars
    /\ [][GetJobStatusCompleted =>
            /\ obs'.pc = "idle"
            /\ IF InCompleted(JobRequest(obs.job_id, obs.service_id))
               THEN \E k \in 1..Len(completed_jobs) :
                       /\ completed_jobs[k].job_id = obs.job_id
                       /\ completed_jobs[k].service_id = obs.service_id
                       /\ obs'.result.status =
                              IF completed_jobs[k].success THEN "COMPLETED"
                                                           ELSE "FAILED"
               ELSE obs'.result.status = "None"]_vars

\* A pair is reported as first in the queue while another job is running.
C14_Witness ==
    /\ obs.pc = "idle"
    /\ obs.result = [status |-> "QUEUED", queue_position |-> 1]
    /\ Len(job_queue) = 1
    /\ job_queue[1] = JobRequest(obs.job_id, obs.service_id)
    /\ Cardinality(DOMAIN active_jobs) = 1

\* C15: once get_job_status has reported COMPLETED or FAILED for a pair, every
\* later report for the pair is that same status.
C15_TerminalIsFinal ==
    \A p \in Submitted :
        seen.terminal[p] # "none" => seen.latest[p] = seen.terminal[p]

\* C16: the queue_size and currently_running that get_executor_stats returns
\* are the lengths of the queue and of the active table in the one state in
\* which they are read, whatever the stats dictionary holds, and
\* currently_running is at most max_workers.
C16_LiveSizesAtOneInstant ==
    [][GetExecutorStatsLive =>
          /\ obs'.stats_result.queue_size = Len(job_queue)
          /\ obs'.stats_result.currently_running = Cardinality(DOMAIN active_jobs)
          /\ obs'.stats_result.currently_running <= max_workers
          /\ obs'.stats_result.total_submitted = obs.stats_snapshot.total_submitted]_vars

\* The result carries sizes that differ from the ones stored in the stats
\* dictionary it started from: a job is running and the dictionary still
\* says none is.
C16_Witness ==
    /\ obs.kind = "stats"
    /\ obs.calls = 1
    /\ obs.pc = "idle"
    /\ obs.stats_result.currently_running = 1
    /\ stats.currently_running = 0
    /\ Cardinality(DOMAIN active_jobs) = 1

\* C17: shutdown has logged its snapshot when it returns; when it was called
\* with wait=True after the last submit_job call had returned, it returns when
\* no work handed to the pool is outstanding, and the snapshot equals the
\* executor's statistics at that moment.
C17_ShutdownWaitsAndIsFinal ==
    seen.shutdown.returned =>
        /\ seen.emitted >= 1
        /\ (seen.shutdown.wait /\ seen.shutdown.after_submits) =>
              /\ seen.shutdown.outstanding = 0
              /\ seen.shutdown.final

\* s is t with some elements left out: same relative order, nothing added.
RECURSIVE IsSubsequence(_, _)
IsSubsequence(s, t) ==
    \/ s = <<>>
    \/ /\ t # <<>>
       /\ \/ Head(s) = Head(t) /\ IsSubsequence(Tail(s), Tail(t))
          \/ IsSubsequence(s, Tail(t))

\* The pattern of a regex stage that runs does not compile.
PatternConsulted(cfg) == cfg.sampleFiles = <<>> /\ cfg.pattern # ""

InvalidInclude(cfg) ==
    PatternConsulted(cfg) /\ InvalidRegex(PrepareRegexPattern(cfg.pattern))

InvalidExclude(cfg) ==
    cfg.exclude_pattern # "" /\ InvalidRegex(PrepareRegexPattern(cfg.exclude_pattern))

InvalidSkip(cfg) ==
    \E k \in 1..Len(cfg.skipPatterns) :
        InvalidRegex(PrepareRegexPattern(cfg.skipPatterns[k]))

\* C18: when the include pattern, the exclude pattern or one of the skip
\* patterns is not a valid regular expression, filter_files returns the empty
\* list.
C18_InvalidRegexFailsClosed ==
    (/\ flt.pc = "returned"
     /\ \/ InvalidInclude(flt.config)
        \/ InvalidExclude(flt.config)
        \/ InvalidSkip(flt.config)) =>
        flt.out = <<>>

\* C19: the result of filter_files is a subsequence of its input; when no
\* pattern ended the call, it holds exactly the input files that pass every
\* stage the configuration enables; and an exclude pattern that matches no
\* input file gives the result the same configuration gives without it.
C19_SequentialSubsequence ==
    flt.pc = "returned" =>
        LET cfg == flt.config
            w == ExtractedDateWindow(cfg)
            Passes(f) ==
                /\ cfg.sampleFiles # <<>> =>
                      \E k \in 1..Len(cfg.sampleFiles) : cfg.sampleFiles[k] = f.name
                /\ PatternConsulted(cfg) => Matches(cfg.pattern, f, cfg)
                /\ cfg.exclude_pattern # "" => ~ Matches(cfg.exclude_pattern, f, cfg)
                /\ \A k \in 1..Len(cfg.skipPatterns) :
                      ~ InvalidRegex(PrepareRegexPattern(cfg.skipPatterns[k]))
                          => ~ Matches(cfg.skipPatterns[k], f, cfg)
                /\ \A k \in 1..Len(cfg.excludeKeywords) :
                      ~ Contains(Lower(f.name), Lower(cfg.excludeKeywords[k]))
                /\ cfg.extensions # <<>> =>
                      Lower(f.ext) \in {NormalizeExtension(cfg.extensions[k]) :
                                           k \in 1..Len(cfg.extensions)}
                /\ cfg.min_size # 0 => f.size >= cfg.min_size
                /\ cfg.max_size # 0 => f.size <= cfg.max_size
                /\ cfg.last_days # 0 => f.mday >= 0 - cfg.last_days
                /\ cfg.start_date.set => f.mday >= cfg.start_date.day
                /\ cfg.end_date.set => f.mday <= cfg.end_date.day
                /\ ExtractedDateEnabled(cfg) =>
                      /\ f.has_date
                      /\ w.has_start => f.xday >= w.start
                      /\ w.has_end => f.xday <= w.end
        IN  /\ IsSubsequence(flt.out, flt.files)
            /\ (~ InvalidInclude(cfg) /\ ~ InvalidExclude(cfg)) =>
                  flt.out = SelectSeq(flt.files, Passes)
            /\ (/\ cfg.exclude_pattern # ""
                /\ ~ InvalidExclude(cfg)
                /\ \A k \in 1..Len(flt.files) :
                      ~ Matches(cfg.exclude_pattern, flt.files[k], cfg)) =>
                  flt.out = FilterFiles(flt.files,
                                        [cfg EXCEPT !.exclude_pattern = ""])

\* The extension filter ['.csv'] ran with an exclude pattern that matches no
\* file: the result is b.CSV and c.csv out of b.CSV, a.txt, c.csv, in the
\* order of the input.
C19_Witness ==
    /\ flt.pc = "returned"
    /\ flt.config.extensions = <<".csv">>
    /\ flt.config.exclude_pattern = "zz"
    /\ flt.files = <<X2, X3, X4>>
    /\ flt.out = <<X2, X4>>

\* C20: the window of the extracted-date stage has as its start the explicit
\* extractedDateStart, else today when extractedDateNextDays is set, else the
\* first of the last N days when extractedDateLastDays is set; and as its end
\* the explicit extractedDateEnd, else today + N of extractedDateNextDays,
\* else today of extractedDateLastDays.
C20_WindowPriority ==
    (flt.pc = "returned" /\ ExtractedDateEnabled(flt.config)) =>
        LET cfg == flt.config
            anchor == IF cfg.extractedDateEnd.set
                      THEN cfg.extractedDateEnd.day ELSE 0
        IN  /\ flt.window.has_start =
                  (\/ cfg.extractedDateStart.set
                   \/ cfg.extractedDateNextDays # 0
                   \/ cfg.extractedDateLastDays # 0)
            /\ flt.window.has_start =>
                  flt.window.start =
                      IF cfg.extractedDateStart.set
                      THEN cfg.extractedDateStart.day
                      ELSE IF cfg.extractedDateNextDays # 0 THEN 0
                      ELSE anchor - (cfg.extractedDateLastDays - 1)
            /\ flt.window.has_end =
                  (\/ cfg.extractedDateEnd.set
                   \/ cfg.extractedDateNextDays # 0
                   \/ cfg.extractedDateLastDays # 0)
            /\ flt.window.has_end =>
                  flt.window.end =
                      IF cfg.extractedDateEnd.set
                      THEN cfg.extractedDateEnd.day
                      ELSE IF cfg.extractedDateNextDays # 0
                      THEN cfg.extractedDateNextDays
                      ELSE 0

\* The first k elements of a list, all of it when it is shorter.
Prefix(items, k) == SubSeq(items, 1, IF Len(items) < k THEN Len(items) ELSE k)

\* C21: when one of the five strategy flags is set in the configuration
\* passed to sort_files, the branch that orders the files is the one of the
\* first flag set in the order sortFilesByModifiedTime, sortByDateInPath,
\* sortByDateInFilename, getLatestFileOnly, sortOnFileName.
C21_FirstSetStrategyOrders ==
    (srt.pc = "returned" /\ srt.files # <<>> /\ srt.config.flags # {}) =>
        srt.branch = BranchTaken(srt.config)

\* C22: when getLatestFileOnly is the branch taken and the comparison of the
\* modification times does not raise, the result holds exactly the files whose
\* mtime is the largest of the input, whatever num_files is.
C22_LatestKeepsAllTies ==
    (srt.pc = "returned" /\ srt.branch = "getLatestFileOnly" /\ ~ srt.raised) =>
        /\ Range(srt.out) =
              {f \in Range(srt.files) :
                  \A g \in Range(srt.files) : g.mtime <= f.mtime}
        /\ IsSubsequence(srt.out, srt.files)

\* mtimes [10, 20, 20, 5] with num_files = 1: both files of mtime 20 are
\* returned.
C22_Witness ==
    /\ srt.pc = "returned"
    /\ srt.files = <<T1, T2, T3, T4>>
    /\ srt.branch = "getLatestFileOnly"
    /\ srt.config.num_files = 1
    /\ srt.out = <<T2, T3>>

\* C23: with num_files = k > 0 and a branch other than getLatestFileOnly
\* taken, the result is the first min(k, n) files of the sorted order.
C23_CapAppliedUnlessLatest ==
    (/\ srt.pc = "returned"
     /\ srt.config.num_files > 0
     /\ srt.branch # "getLatestFileOnly") =>
        srt.out = Prefix(srt.sorted_files, srt.config.num_files)

\* C24: when the sort of the branch taken raises, the result is the input in
\* its order, whole or cut to its first num_files files.
C24_SortFailureFallsBack ==
    (srt.pc = "returned" /\ srt.raised) =>
        /\ srt.out # <<>>
        /\ \/ srt.out = srt.files
           \/ /\ srt.config.num_files > 0
              /\ srt.out = Prefix(srt.files, srt.config.num_files)

\* Sorting by modification time raised on a naive and an aware datetime; the
\* three files come back in the order they were passed, which is not the
\* order of their modification times.
C24_Witness ==
    /\ srt.pc = "returned"
    /\ srt.raised
    /\ srt.branch = "sortFilesByModifiedTime"
    /\ srt.files = <<T2, T5, T1>>
    /\ srt.out = <<T2, T5, T1>>

\* C25 as stated: no listed file lies under a directory below the root whose
\* name is one of the names excludeFolders gives, every such directory that
\* lies in a scanned directory is recorded as skipped, none is scanned, and
\* with skipSubFolders only files of the root are listed.
C25_ExcludedNeverListed_AsWritten ==
    lst.pc = "returned" =>
        LET named == {d \in TreeDirs :
                         /\ DirExists(d, lst.tree)
                         /\ Basename(d) \in ConfiguredFolders(lst.config.excludeFolders)}
        IN  /\ \A k \in 1..Len(lst.file_list) :
                  Ancestors(lst.file_list[k]) \cap named = {}
            /\ {d \in named : Dirname(d) \in lst.scanned}
                  \subseteq Range(lst.skipped_folders)
            /\ named \cap lst.scanned = {}
            /\ lst.config.skipSubFolders =>
                  \A k \in 1..Len(lst.file_list) :
                      Dirname(lst.file_list[k]) = ListRoot

\* C25: no listed file lies under a directory below the root whose name is
\* one of the names excludeFolders gives with the blanks around them removed;
\* every such directory that lies in a scanned directory is recorded as
\* skipped, none of them is scanned, only they are recorded; and with
\* skipSubFolders only files of the root are listed.
C25_ExcludedNeverListed ==
    lst.pc = "returned" =>
        LET named == {d \in TreeDirs :
                         /\ DirExists(d, lst.tree)
                         /\ Basename(d) \in {Strip(n) :
                               n \in ConfiguredFolders(lst.config.excludeFolders)}}
        IN  /\ \A k \in 1..Len(lst.file_list) :
                  Ancestors(lst.file_list[k]) \cap named = {}
            /\ Range(lst.skipped_folders) =
                  {d \in named : Dirname(d) \in lst.scanned}
            /\ named \cap lst.scanned = {}
            /\ lst.config.skipSubFolders =>
                  \A k \in 1..Len(lst.file_list) :
                      Dirname(lst.file_list[k]) = ListRoot

\* excludeFolders is "data, tmp": /in/tmp and /in/data were skipped and
\* recorded, the two files of the root and of "/in/tmp " were listed.
C25_Witness ==
    /\ lst.pc = "returned"
    /\ lst.config.excludeFolders.str = "data, tmp"
    /\ ~ lst.config.skipSubFolders
    /\ lst.tree = TreeFiles
    /\ lst.skipped_folders = <<"/in/data", "/in/tmp">>
    /\ lst.file_list = <<"/in/r.csv", "/in/tmp /w.csv">>

\* C26: a call of create_connection never ends with an exception, and it
\* returns (None, {}) when the type is missing or unsupported or when the
\* constructor or the probe listing raises.
C26_ConnectionNeverRaises ==
    conn.pc = "done" =>
        /\ ~ conn.result.raised
        /\ (\/ conn.config.type.kind # "str"
            \/ LowerType(conn.config.type.value) \notin {"ftp", "sftp", "s3", "local"}
            \/ conn.env.constructor = "raises"
            \/ conn.env.probe = "raises") =>
              conn.result = NoneEmpty

\* C27: the stages execute has invoked are a prefix of Initialize,
\* Validate-Config, Fetch, Validate, Upload; every stage before the last one
\* invoked succeeded; and when execute has returned, its result has success
\* true exactly when all five stages succeeded, and a failed or raising stage
\* has made execute return a result with success false and an error.
C27_StagesInOrderShortCircuit ==
    /\ Len(mod.invoked) <= Len(Stages)
    /\ \A k \in 1..Len(mod.invoked) :
          /\ mod.invoked[k] = Stages[k]
          /\ k < Len(mod.invoked) => mod.invoked[k] \in mod.succeeded
    /\ mod.pc = "returned" =>
          /\ mod.result.success <=> (mod.succeeded = Range(Stages))
          /\ ~ mod.result.success => mod.result.error # ""
          /\ mod.succeeded # Range(Stages) =>
                /\ mod.invoked[Len(mod.invoked)] \notin mod.succeeded
                /\ ~ mod.result.success
    /\ mod.raised_in # "none" =>
          /\ mod.pc = "returned"
          /\ mod.raised_in = mod.invoked[Len(mod.invoked)]
          /\ mod.result = Failure("exception")

\* fetch_data returned success false after Initialize and Validate-Config
\* succeeded: execute returned "Fetch failed" without calling validate_data.
C27_Witness ==
    /\ mod.pc = "returned"
    /\ mod.invoked = <<"initialize", "validate_config", "fetch">>
    /\ mod.succeeded = {"initialize", "validate_config"}
    /\ mod.result = Failure("Fetch failed")


\* The lock the running frame of thread t is about to take, "none" when it
\* is not at an acquisition.
Wants(t) ==
    IF lk.stack[t] = <<>> THEN "none"
    ELSE LET at == Head(lk.stack[t]).pc
         IN  IF at = "acq_queue" THEN "queue_lock"
             ELSE IF at \in {"acq_active", "except_acq_active"} THEN "active_jobs_lock"
             ELSE IF at \in {"acq_stats", "acq_snapshot", "except_acq_stats"}
                  THEN "stats_lock"
             ELSE IF at = "acq_first" THEN StatsLockOrder[1]
             ELSE IF at = "acq_second" THEN StatsLockOrder[2]
             ELSE "none"

Blocked(t) == Wants(t) # "none" /\ lk.owner[Wants(t)] # 0

RECURSIVE WaitsInChain(_, _)
\* Thread t waits for a thread that waits for a thread ... n times over.
WaitsInChain(t, n) ==
    Blocked(t) /\ (n = 0 \/ WaitsInChain(lk.owner[Wants(t)], n - 1))

Position(items, x) == CHOOSE i \in 1..Len(items) : items[i] = x

\* C28: a thread that holds queue_lock and active_jobs_lock took queue_lock
\* first, no thread asks for queue_lock while it holds active_jobs_lock, and
\* no set of threads waits in a circle for locks held inside the set (a
\* thread asking for a lock it holds itself included).
C28_LockOrderNoDeadlock ==
    \A t \in LkThreads :
        /\ {"queue_lock", "active_jobs_lock"} \subseteq Range(lk.held[t]) =>
               Position(lk.held[t], "queue_lock")
                   < Position(lk.held[t], "active_jobs_lock")
        /\ Wants(t) = "queue_lock" => "active_jobs_lock" \notin Range(lk.held[t])
        /\ ~WaitsInChain(t, Cardinality(LkThreads))

\* A thread holds both locks, taken in that order, while another thread
\* waits for queue_lock.
C28_Witness ==
    /\ \E t, u \in LkThreads :
          /\ lk.held[t] = <<"queue_lock", "active_jobs_lock">>
          /\ Blocked(u)
          /\ lk.owner[Wants(u)] = t
          /\ Wants(u) = "queue_lock"

\* C29: _job_completed never starts in a thread that holds queue_lock or
\* active_jobs_lock, whether the pool thread runs it or the thread that
\* attaches the callback to a finished future does.
C29_HandlerStartsUnlocked ==
    /\ lk.entered_holding \cap {"queue_lock", "active_jobs_lock"} = {}
    /\ \A t \in LkThreads :
          Running(t, "_job_completed", "start") =>
              Range(lk.held[t]) \cap {"queue_lock", "active_jobs_lock"} = {}

\* A handler ran in the attaching thread, and a handler's drain call started
\* the next job.
C29_Witness ==
    /\ lk.inline
    /\ lk.drained
    /\ lk.completed >= 1

\* C30: every handled completion adds one to exactly one of total_completed
\* and total_failed and appends one JobResult, so that with no handler (and
\* no drain call of a handler) in progress the history is as long as the two
\* counters together.
C30_HistoryMatchesCounters ==
    (\A t \in Threads : pc[t] = "idle") =>
        Len(completed_jobs) = stats.total_completed + stats.total_failed

\* C31: a handler whose future.result() raises leaves its except block with
\* the job's key out of the active table, with the job counted as failed (it
\* was not counted before: nothing precedes future.result()), and goes on to
\* call _process_queue.
C31_RaisingHandlerCleansUp ==
    [][\A t \in Threads :
          (pc[t] = "jc_except" /\ pc'[t] # "jc_except") =>
              /\ loc[t].job_key \notin DOMAIN active_jobs'
              /\ stats'.total_failed = stats.total_failed + 1
              /\ pc'[t] = "pq_check"]_vars

\* No thread is inside submit_job, _process_queue or _job_completed: every
\* thread is idle or runs _execute_job.
NobodyInside == \A t \in Threads : pc[t] \in {"idle", "execute_job"}

\* C32: whenever no thread is inside submit_job, _process_queue or
\* _job_completed, the queue is empty or the active table holds max_workers
\* entries: no queued request waits while a slot is free.
C32_NoLostWakeUp ==
    NobodyInside =>
        job_queue = <<>> \/ Cardinality(DOMAIN active_jobs) = max_workers

\* The futures the pool has not finished.  While nobody is inside
\* _process_queue or _job_completed these are the jobs handed to the pool
\* whose completion is not handled: a finished future's callback runs at
\* once, in the pool thread or in the thread that attaches it.
Unfinished == {i \in 1..Len(futures) : futures[i].state # "finished"}

\* C33: the jobs handed to the pool whose completion is not yet handled are
\* at most max_workers and as many as the active table has entries (looked
\* at while no thread is inside submit_job, _process_queue or
\* _job_completed).
C33_PoolMatchesActiveTable ==
    NobodyInside =>
        /\ Cardinality(Unfinished) <= max_workers
        /\ Cardinality(Unfinished) = Cardinality(DOMAIN active_jobs)

\* C34: two different (job_id, service_id) pairs never share an entry of the
\* active table: a job in the pool whose key is in the table is the job of
\* the pair the entry was made for.
C34_PairsNeverShareEntry ==
    \A i \in Unfinished :
        JobKey(futures[i].req) \in DOMAIN active_jobs =>
            futures[active_jobs[JobKey(futures[i].req)]].req = futures[i].req

\* C35: a call of get_job_status for a pair whose submit_job had returned
\* True when the call began does not return None.
C35_AcceptedPairIsFound ==
    (/\ obs.kind = "status"
     /\ obs.pc = "idle"
     /\ obs.calls > 0
     /\ obs.returned_true) => obs.result.status # "None"

\* C36: every result of get_executor_stats has total_submitted equal to
\* queue_size + currently_running + total_completed + total_failed.
C36_StatsConservation ==
    (obs.kind = "stats" /\ obs.pc = "idle" /\ obs.calls > 0) =>
        obs.stats_result.total_submitted =
            obs.stats_result.queue_size + obs.stats_result.currently_running
                + obs.stats_result.total_completed + obs.stats_result.total_failed

\* The target files whose paths the state file did not name as processed
\* when the first run was interrupted.
OtherTargets == {f \in Range(h.input) : f.path \notin Range(h.persisted)}

\* C37: after an interruption and a second call with the same list, every
\* path the state file named as processed had been downloaded and verified
\* (in the interrupted run or in the runs its own state came from), none of
\* them is transferred again, and when the second call has returned every
\* other target file was in its work list and was either attempted or
\* skipped because it exists locally.
C37_ResumeAfterInterruption ==
    h.run = 2 =>
        /\ Range(h.persisted) \subseteq h.verified
        /\ h.attempted \cap Range(h.persisted) = {}
        /\ dpc = "returned" =>
              /\ Range(dl.files) = OtherTargets
              /\ Cardinality({f \in OtherTargets : f.path \notin h.attempted})
                     = dl.skipped_count

\* The second call has returned: it left out a file the interrupted run had
\* persisted, transferred another and skipped a third that was on the disk.
C37_Witness ==
    /\ h.run = 2
    /\ dpc = "returned"
    /\ h.persisted # <<>>
    /\ Range(h.persisted) \cap {f.path : f \in Range(h.input)} # {}
    /\ h.attempted # {}
    /\ dl.skipped_count > 0

\* run_file_transfer, file_transfer.py lines 54 and 72:
\* success_count, total_count = download_files(...);
\* "failed": total_count - success_count
MetadataFailed == result[2] - result[1]

\* C38: the failed count that run_file_transfer reports is not negative and
\* is the number of files download_files marked failed.
C38_FailedCountReported ==
    dpc = "returned" =>
        /\ MetadataFailed >= 0
        /\ MetadataFailed = dl.failed_count

\* The listing of directory d raises at every call the retry loop may make.
KeepsRaising(d) ==
    \A call \in 1..(lst.config.max_reconnect_attempts + 1) :
        LsRaises(d, [unreadable |-> lst.unreadable, flaky |-> lst.flaky], call)

\* The files list_files has to return when the directories that keep raising
\* are given up: those with every directory above them answering and entered.
Reachable(f) ==
    /\ ~ KeepsRaising(ListRoot)
    /\ \A d \in Ancestors(f) :
          /\ ~ KeepsRaising(d)
          /\ ~ ShouldSkipFolder(d, lst.config)
          /\ ~ lst.config.skipSubFolders

\* C39: for a directory whose listing keeps raising fs.ls is called
\* max_reconnect_attempts + 1 times, with a sleep of 0.5 * 2^(k-1) seconds
\* (2^(k-1) half seconds) before the k-th retry; only its subtree is given
\* up: the call returns, with every file of the directories that could be
\* read, those listed before and after the failing directory included.
C39_ListingRetriesThenAbandons ==
    (lst.pc = "returned" /\ lst.fs = "alive") =>
        /\ \A k \in 1..Len(lst.ls_log) :
              KeepsRaising(lst.ls_log[k].path) =>
                  /\ ~ lst.ls_log[k].ok
                  /\ lst.ls_log[k].calls = lst.config.max_reconnect_attempts + 1
                  /\ lst.ls_log[k].sleeps =
                         [j \in 1..lst.config.max_reconnect_attempts |-> 2 ^ (j - 1)]
        /\ Range(lst.file_list) = {f \in lst.tree : Reachable(f)}

\* /in/data kept raising through three calls with sleeps of 0.5 s and 1 s;
\* the file of the root listed before it and the file of /in/tmp listed
\* after it are in the result.
C39_Witness ==
    /\ lst.pc = "returned"
    /\ lst.unreadable = {"/in/data"}
    /\ lst.config.max_reconnect_attempts = 2
    /\ lst.tree = TreeFiles
    /\ lst.config.excludeFolders.kind = "absent"
    /\ ~ lst.config.skipSubFolders
    /\ \E k \in 1..Len(lst.ls_log) :
          lst.ls_log[k] = [path |-> "/in/data", ok |-> FALSE, calls |-> 3,
                           sleeps |-> <<1, 2>>]
    /\ lst.file_list = <<"/in/r.csv", "/in/tmp/x.csv", "/in/tmp /w.csv">>

\* C40: when none of the five strategy flags is set, the branch sort_files
\* takes is the one auto-detection chose from the sample: date in the
\* filename when more names than directory paths hold a date, date in the
\* path when more paths than names do, the filename when the two counts are
\* equal.
C40_AutoDetectChoosesLocation ==
    (srt.pc = "returned" /\ srt.files # <<>> /\ srt.config.flags = {}) =>
        srt.branch = IF FilenameMatches(srt.files) > PathMatches(srt.files)
                     THEN "sortByDateInFilename"
                     ELSE IF PathMatches(srt.files) > FilenameMatches(srt.files)
                     THEN "sortByDateInPath"
                     ELSE "sortOnFileName"
====
